---- MODULE Spec2Model ----
(***************************************************************************)
(* CinaKinetic: the remote generation clients (RunPodClient and            *)
(* ComfyUIClient), their health checks, the model selection of             *)
(* RunPodClient, the ComfyUI workflow graphs built by the clients and by   *)
(* ActionWorkflowTemplate, and the prompts built by ActionPromptBuilder    *)
(* and ReplicateClient.                                                    *)
(*                                                                         *)
(* JSON objects are functions from keys to values, Python lists are        *)
(* sequences, and a Python string that the code searches or lowercases is  *)
(* a sequence of one-character strings.                                    *)
(***************************************************************************)
EXTENDS Integers, Sequences, FiniteSets, TLC

(***************************************************************************)
(* Bounds of the model.                                                    *)
(***************************************************************************)
\* concurrent generate_scene calls
NumCalls == 2
\* iterations of the RunPod polling loop (range(120) in the source)
MaxAttempts == 3
\* models a pod's catalog lists
MaxCatalog == 3
\* ControlNet attachments of a request
MaxControlnets == 2
\* LoRA attachments of a request
MaxLoras == 2
\* health checks a caller makes one after the other
MaxProbes == 2
\* the last second the clock reaches while graphs are built
MaxClock == 1
\* characters and props a scene lists
MaxCharacters == 3
MaxProps == 4
\* prompts in a batch request; the batch builder reads the first four
MaxBatchPrompts == 5
\* usage records a session collects
MaxDeductions == 2
\* operations one caller of the storyboard database awaits
MaxDbOps == 3
MaxConnections == 2

Calls == 1..NumCalls
Backends == {"runpod", "comfyui"}

VARIABLES
    backend,    \* backend[c]: the client class call c runs on
    status,     \* status[c]: where call c is in generate_scene/_submit_workflow
    prompt_id,  \* prompt_id[c]: the job id the POST /prompt response carried
    attempt,    \* attempt[c]: polling-loop iterations finished (RunPod's range)
    lastPoll,   \* lastPoll[c]: what the last GET /history of call c came back with
    polled,     \* polled[c]: the job ids call c has asked /history for
    posts,      \* posts[c]: POST /prompt requests call c has sent
    result,     \* result[c]: what _submit_workflow gave back
    final,      \* final[c]: what generate_scene returned to its caller
    jobs,       \* jobs[id]: the remote service's state of job id
    nextId,     \* the next job id the remote service assigns
    cancelled,  \* the calls whose task the caller has cancelled
    object_info,      \* the answer GET /object_info gives _select_model's call
    preferred_wan,    \* _select_model's argument: <<>> is None, <<s>> is the string s
    scene_type,       \* _select_model's argument
    available_models, \* what get_available_models returned
    model_name,       \* what _select_model returned
    select_pc,        \* "ready": before the call, "done": after, "idle": not used
    request,    \* the generation request a graph is built for
    workflow,   \* the graph built: node id -> node
    build_pc,   \* "ready": before the build, "done": after, "idle": not used
    now,        \* int(time.time()) when the latest build ran
    previous,   \* the graph the build before the latest returned, if any
    probes,     \* the health checks made so far: backend, answer and outcome
    prompt_args,     \* the caller, base prompt and SceneParameters of a prompt build
    enhanced_prompt, \* <<>> before the build, <<s>>: the string it returned
    user_credits,    \* st.session_state['user_credits']: <<>> is no such key
    usage_history,   \* st.session_state['usage_history']: <<>> is no such key
    last_deduct,     \* the latest deduct_credits call, what it found and returned
    db_file,         \* storyboards.json: <<>> is an empty file, <<d>> the JSON object d
    db_task,         \* db_task[t]: the database operation task t runs and its locals
    db_history,      \* the database operations that returned, oldest first
    workflow_nodes,        \* st.session_state.workflow_nodes: node id -> node type
    workflow_connections,  \* st.session_state.workflow_connections
    selected_node          \* st.session_state.selected_node: <<>> is None

clientVars == <<backend, status, prompt_id, attempt, lastPoll, polled, posts,
                result, final, jobs, nextId, cancelled>>

selectVars == <<object_info, preferred_wan, scene_type, available_models,
                model_name, select_pc>>

graphVars == <<request, workflow, build_pc, now, previous>>

probeVars == <<probes>>

promptVars == <<prompt_args, enhanced_prompt>>

pricingVars == <<user_credits, usage_history, last_deduct>>

dbVars == <<db_file, db_task, db_history>>

editorVars == <<workflow_nodes, workflow_connections, selected_node>>

\* the session state of the pricing manager and of the workflow editor, and
\* the storyboard database
appVars == <<pricingVars, dbVars, editorVars>>

vars == <<clientVars, selectVars, graphVars, probeVars, promptVars, appVars>>

(***************************************************************************)
(* Values of the clients.                                                  *)
(***************************************************************************)
Placeholder == <<"/static/images/placeholder_action.jpg">>
PodUrl == "https://pod"
NoId == 0
NoValue == [none |-> TRUE]

Terminal == {"COMPLETED", "FAILED", "TIMED_OUT"}

\* a faulty variant of ImageUrl: the RunPod client builds ComfyUIClient's local path
ImageUrlLocal(b, filename) == <<"/static/output/", filename>>

\* runpod_client.py 369 / comfyui_client.py 267: the artifact reference
ImageUrl(b, filename) ==
    IF b = "runpod"
    THEN <<PodUrl, "/view?filename=", filename, "&type=output">>
    ELSE <<"/static/output/", filename>>

\* the dict _submit_workflow returns on completion
SubmitSuccess(b, pid, filename) ==
    IF b = "runpod"
    THEN [image_url |-> ImageUrl(b, filename), prompt_id |-> pid,
          filename |-> filename]
    ELSE [image_url |-> ImageUrl(b, filename), workflow_id |-> pid]

\* the except branch of _submit_workflow: e is str(e)
SubmitFallback(b, e) ==
    IF b = "runpod"
    THEN [image_url |-> Placeholder, error |-> e]
    ELSE [image_url |-> Placeholder, workflow_id |-> "dev_fallback"]

(***************************************************************************)
(* The remote service: /history/{id} answers {} until the job is in the    *)
(* history, then {id: {"outputs": ...}}.                                   *)
(***************************************************************************)
JobStates == {"pending", "other_node", "done"}
EmptyObject == [k \in {} |-> k]

\* the service numbers the files it saves, so no two jobs share a file name
SavedFile(id) == <<"action_", id, "_.png">>

\* the "outputs" of a job in the history: keyed by the id of the node that
\* saved something
Outputs(id) ==
    IF jobs[id] = "done"
    THEN ("9" :> [images |-> <<[filename |-> SavedFile(id)]>>])
    ELSE ("12" :> [gifs |-> <<[filename |-> SavedFile(id)]>>])

HistoryBody(id) ==
    IF id \notin DOMAIN jobs \/ jobs[id] = "pending"
    THEN EmptyObject
    ELSE (id :> [outputs |-> Outputs(id)])

\* runpod_client.py 365 / comfyui_client.py 265
HasSaveImages(outputs) ==
    "9" \in DOMAIN outputs /\ "images" \in DOMAIN outputs["9"]

\* the body of the polling loop once the GET answered 200 with `history`
ReadHistory(b, history, pid) ==
    IF pid \in DOMAIN history
    THEN IF "outputs" \notin DOMAIN history[pid]
         THEN [act |-> "raise", exc |-> "'outputs'"]
         ELSE IF HasSaveImages(history[pid].outputs)
              THEN [act |-> "return",
                    value |-> SubmitSuccess(b, pid,
                                 history[pid].outputs["9"].images[1].filename)]
              ELSE [act |-> "continue"]
    ELSE [act |-> "continue"]

\* a faulty variant of HistoryKey: the job id is kept on the client object, which
\* the concurrent calls share: every call polls the id submitted last
HistoryKeyShared(c) == nextId - 1

\* the job id a call puts in the /history URL: its own local prompt_id
HistoryKey(c) == prompt_id[c]

\* generate_scene's return value from what _submit_workflow did
GenerateSceneResult(b, out) ==
    IF b = "runpod"
    THEN IF out.raised
         THEN [image_url |-> Placeholder, error |-> out.exc,
               runpod_generation |-> TRUE]
         ELSE [image_url |-> out.value.image_url, runpod_generation |-> TRUE]
    ELSE [image_url |-> out.value.image_url,
          workflow_id |-> IF "workflow_id" \in DOMAIN out.value
                          THEN out.value.workflow_id ELSE "None"]

Returned(v) == [raised |-> FALSE, value |-> v]

(***************************************************************************)
(* Initial state: no call has started, the service has no job.             *)
(***************************************************************************)
InitClient ==
    /\ backend = [c \in Calls |-> "runpod"]
    /\ status = [c \in Calls |-> "IDLE"]
    /\ prompt_id = [c \in Calls |-> NoId]
    /\ attempt = [c \in Calls |-> 0]
    /\ lastPoll = [c \in Calls |-> "none"]
    /\ polled = [c \in Calls |-> {}]
    /\ posts = [c \in Calls |-> 0]
    /\ result = [c \in Calls |-> NoValue]
    /\ final = [c \in Calls |-> NoValue]
    /\ jobs = EmptyObject
    /\ nextId = 1
    /\ cancelled = {}

\* _submit_workflow gives `out` back and generate_scene returns to its caller
Finish(c, out) ==
    /\ result' = [result EXCEPT ![c] = out]
    /\ final' = [final EXCEPT ![c] = GenerateSceneResult(backend[c], out)]

\* generate_scene is called on a client of backend b
GenerateScene(c, b) ==
    /\ status[c] = "IDLE"
    /\ backend' = [backend EXCEPT ![c] = b]
    /\ status' = [status EXCEPT ![c] = "SUBMITTING"]
    /\ UNCHANGED <<prompt_id, attempt, lastPoll, polled, posts, result, final,
                   jobs, nextId, cancelled>>
    /\ UNCHANGED <<selectVars, graphVars, probeVars, promptVars, appVars>>

\* POST /prompt and the handling of its response
PostPrompt(c) ==
    /\ status[c] = "SUBMITTING"
    /\ posts' = [posts EXCEPT ![c] = @ + 1]
    /\ \E resp \in {"transport_error", "status_500", "no_prompt_id", "ok"} :
         IF resp = "ok"
         THEN /\ prompt_id' = [prompt_id EXCEPT ![c] = nextId]
              /\ jobs' = (nextId :> "pending") @@ jobs
              /\ nextId' = nextId + 1
              /\ status' = [status EXCEPT ![c] = "QUEUED"]
              /\ UNCHANGED <<result, final>>
         ELSE /\ status' = [status EXCEPT ![c] = "FAILED"]
              /\ Finish(c, Returned(SubmitFallback(backend[c],
                     CASE resp = "transport_error" -> "ConnectionError"
                       [] resp = "status_500" -> "Failed to submit workflow: 500"
                       [] resp = "no_prompt_id" -> "'prompt_id'")))
              /\ UNCHANGED <<prompt_id, jobs, nextId>>
    /\ UNCHANGED <<backend, attempt, lastPoll, polled, cancelled>>
    /\ UNCHANGED <<selectVars, graphVars, probeVars, promptVars, appVars>>

\* the polling loop is entered
EnterPolling(c) ==
    /\ status[c] = "QUEUED"
    /\ status' = [status EXCEPT ![c] = "POLLING"]
    /\ attempt' = [attempt EXCEPT ![c] = 0]
    /\ UNCHANGED <<backend, prompt_id, lastPoll, polled, posts, result, final,
                   jobs, nextId, cancelled>>
    /\ UNCHANGED <<selectVars, graphVars, probeVars, promptVars, appVars>>

\* one iteration of the polling loop: sleep(1), GET /history/{id}, and the
\* handling of the response; RunPod's loop ends after MaxAttempts iterations
PollHistory(c) ==
    /\ status[c] = "POLLING"
    /\ polled' = [polled EXCEPT ![c] = @ \cup {HistoryKey(c)}]
    /\ \E resp \in {"transport_error", "status_500", "ok"} :
         LET b == backend[c]
             step == CASE resp = "transport_error" ->
                              [act |-> "raise", exc |-> "ConnectionError"]
                       [] resp = "status_500" -> [act |-> "continue"]
                       [] resp = "ok" ->
                              ReadHistory(b, HistoryBody(HistoryKey(c)), prompt_id[c])
             exhausted == b = "runpod" /\ attempt[c] + 1 >= MaxAttempts
         IN /\ lastPoll' = [lastPoll EXCEPT ![c] =
                              IF resp = "ok" THEN jobs[HistoryKey(c)] ELSE resp]
            /\ attempt' = [attempt EXCEPT ![c] =
                              IF b = "runpod" THEN @ + 1 ELSE @]
            /\ CASE step.act = "return" ->
                      /\ status' = [status EXCEPT ![c] = "COMPLETED"]
                      /\ Finish(c, Returned(step.value))
                 [] step.act = "raise" ->
                      /\ status' = [status EXCEPT ![c] = "FAILED"]
                      /\ Finish(c, Returned(SubmitFallback(b, step.exc)))
                 [] step.act = "continue" /\ exhausted ->
                      /\ status' = [status EXCEPT ![c] = "TIMED_OUT"]
                      /\ Finish(c, Returned(SubmitFallback(b, "Generation timeout")))
                 [] step.act = "continue" /\ ~exhausted ->
                      UNCHANGED <<status, result, final>>
    /\ UNCHANGED <<backend, prompt_id, posts, jobs, nextId, cancelled>>
    /\ UNCHANGED <<selectVars, graphVars, probeVars, promptVars, appVars>>

\* the remote service finishes a job, one way or another
ServiceFinish(id) ==
    /\ id \in DOMAIN jobs
    /\ jobs[id] = "pending"
    /\ \E s \in JobStates \ {"pending"} : jobs' = [jobs EXCEPT ![id] = s]
    /\ UNCHANGED <<backend, status, prompt_id, attempt, lastPoll, polled, posts,
                   result, final, nextId, cancelled>>
    /\ UNCHANGED <<selectVars, graphVars, probeVars, promptVars, appVars>>

(***************************************************************************)
(* Strings the code searches: sequences of characters.                     *)
(***************************************************************************)
UpperCase == <<"A", "B", "C", "D", "E", "F", "G", "H", "I", "J", "K", "L", "M",
               "N", "O", "P", "Q", "R", "S", "T", "U", "V", "W", "X", "Y", "Z">>
LowerCase == <<"a", "b", "c", "d", "e", "f", "g", "h", "i", "j", "k", "l", "m",
               "n", "o", "p", "q", "r", "s", "t", "u", "v", "w", "x", "y", "z">>

\* str.lower()
Lower(s) ==
    [i \in 1..Len(s) |->
        IF \E k \in 1..Len(UpperCase) : UpperCase[k] = s[i]
        THEN LowerCase[CHOOSE k \in 1..Len(UpperCase) : UpperCase[k] = s[i]]
        ELSE s[i]]

\* Python's `sub in s` on strings
Contains(sub, s) ==
    \E i \in 0..(Len(s) - Len(sub)) : SubSeq(s, i + 1, i + Len(sub)) = sub

\* "epicrealismXL_v10.safetensors"
EpicRealism ==
    <<"e", "p", "i", "c", "r", "e", "a", "l", "i", "s", "m", "X", "L", "_",
      "v", "1", "0", ".", "s", "a", "f", "e", "t", "e", "n", "s", "o", "r",
      "s">>
\* "dreamshaper_8.safetensors"
DreamShaper ==
    <<"d", "r", "e", "a", "m", "s", "h", "a", "p", "e", "r", "_", "8", ".",
      "s", "a", "f", "e", "t", "e", "n", "s", "o", "r", "s">>
\* "realisticVisionV60_v60B1.safetensors"
RealisticVision ==
    <<"r", "e", "a", "l", "i", "s", "t", "i", "c", "V", "i", "s", "i", "o",
      "n", "V", "6", "0", "_", "v", "6", "0", "B", "1", ".", "s", "a", "f",
      "e", "t", "e", "n", "s", "o", "r", "s">>
\* "WAN_2.1_t2v.safetensors"
WanModel ==
    <<"W", "A", "N", "_", "2", ".", "1", "_", "t", "2", "v", ".", "s", "a",
      "f", "e", "t", "e", "n", "s", "o", "r", "s">>
\* "sd_v1-5.safetensors", a checkpoint a pod may have installed
StableDiffusion15 ==
    <<"s", "d", "_", "v", "1", "-", "5", ".", "s", "a", "f", "e", "t", "e",
      "n", "s", "o", "r", "s">>
\* "epicphotogasm_z.safetensors", a second checkpoint with "epic" in its name
EpicPhotogasm ==
    <<"e", "p", "i", "c", "p", "h", "o", "t", "o", "g", "a", "s", "m", "_",
      "z", ".", "s", "a", "f", "e", "t", "e", "n", "s", "o", "r", "s">>

ModelPool == {EpicRealism, DreamShaper, RealisticVision, WanModel, StableDiffusion15,
              EpicPhotogasm}

SceneTypes == {"car_chase", "fight_scene", "explosion", "aerial_combat",
               "space_battle", "shootout"}

\* the values of wan_model the callers pass: None, "", and names of families
PreferredChoices == {<<>>, <<<<>>>>, <<<<"D", "r", "e", "a", "m">>>>, <<<<"W", "A", "N">>>>, <<<<"x", "l">>>>, <<<<"f", "l", "u", "x">>>>}

(***************************************************************************)
(* RunPodClient.get_available_models and RunPodClient._select_model.       *)
(***************************************************************************)
\* dict.get(key, default)
Get(obj, key, default) == IF key \in DOMAIN obj THEN obj[key] ELSE default

\* the JSON body of GET /object_info for the shapes a pod can answer with
ObjectInfoBody(shape, names) ==
    CASE shape = "flat" ->
           [CheckpointLoaderSimple |-> [input |-> [ckpt_name |-> <<names, EmptyObject>>]]]
      [] shape = "single" ->
           [CheckpointLoaderSimple |-> [input |-> [ckpt_name |-> <<names>>]]]
      [] shape = "required" ->
           [CheckpointLoaderSimple |->
               [input |-> [required |-> [ckpt_name |-> <<names, EmptyObject>>]]]]
      [] shape = "no_loader" -> EmptyObject

\* get_available_models: every ckpt_name the shapes above carry is a list, and
\* the default {} has length 0
GetAvailableModels(resp) ==
    IF resp.http = "transport_error"
    THEN <<>>
    ELSE IF resp.http = "ok"
         THEN LET info == ObjectInfoBody(resp.shape, resp.names)
                  checkpoint_loader == Get(info, "CheckpointLoaderSimple", EmptyObject)
                  input_info == Get(checkpoint_loader, "input", EmptyObject)
                  ckpt_name_info == Get(input_info, "ckpt_name", EmptyObject)
              IN IF Len(ckpt_name_info) > 1 THEN ckpt_name_info[1] ELSE <<>>
         ELSE <<>>

\* scene_preferences.get(scene_type, ["realistic", "epic", "dream"])
ScenePreferences(st) ==
    CASE st = "car_chase" -> <<<<"r", "e", "a", "l", "i", "s", "t", "i", "c">>, <<"v", "i", "s", "i", "o", "n">>, <<"e", "p", "i", "c">>>>
      [] st = "fight_scene" -> <<<<"e", "p", "i", "c">>, <<"r", "e", "a", "l", "i", "s", "t", "i", "c">>, <<"d", "r", "e", "a", "m">>>>
      [] st = "explosion" -> <<<<"j", "u", "g", "g", "e", "r", "n", "a", "u", "t">>, <<"e", "p", "i", "c">>, <<"d", "r", "e", "a", "m">>>>
      [] st = "aerial_combat" -> <<<<"d", "r", "e", "a", "m">>, <<"e", "p", "i", "c">>, <<"r", "e", "a", "l", "i", "s", "t", "i", "c">>>>
      [] st = "space_battle" -> <<<<"d", "r", "e", "a", "m">>, <<"s", "c", "i">>, <<"e", "p", "i", "c">>>>
      [] OTHER -> <<<<"r", "e", "a", "l", "i", "s", "t", "i", "c">>, <<"e", "p", "i", "c">>, <<"d", "r", "e", "a", "m">>>>

\* the name _select_model returns when nothing is available
GuessedModel ==
    <<"s", "d", "_", "v", "1", "-", "5", ".", "s", "a", "f", "e", "t", "e",
      "n", "s", "o", "r", "s">>

\* `for model in models: if word in model.lower(): return model`: the models
\* that would be returned, in order
Matching(word, models) == SelectSeq(models, LAMBDA m : Contains(word, Lower(m)))

\* a faulty variant of PreferenceLoop: the loops are nested the other way
\* round, so the first model containing any of the keywords is returned
PreferenceLoopModelsFirst(preferences, models, i) ==
    LET hit == SelectSeq(models,
                   LAMBDA m : \E j \in i..Len(preferences) :
                                 Contains(preferences[j], Lower(m)))
    IN IF hit # <<>> THEN <<hit[1]>> ELSE <<>>

\* the nested loops over preferences and models, from preference i on
RECURSIVE PreferenceLoop(_, _, _)
PreferenceLoop(preferences, models, i) ==
    IF i > Len(preferences)
    THEN <<>>
    ELSE IF Matching(preferences[i], models) # <<>>
         THEN <<Matching(preferences[i], models)[1]>>
         ELSE PreferenceLoop(preferences, models, i + 1)

\* a faulty variant of SelectModel: the search for any WAN model comes first
SelectModelWanFirst(models, preferred, st) ==
    IF Matching(<<"w", "a", "n">>, models) # <<>>
    THEN Matching(<<"w", "a", "n">>, models)[1]
    ELSE IF preferred # <<>> /\ preferred[1] # <<>>
            /\ Matching(Lower(preferred[1]), models) # <<>>
         THEN Matching(Lower(preferred[1]), models)[1]
         ELSE IF PreferenceLoop(ScenePreferences(st), models, 1) # <<>>
              THEN PreferenceLoop(ScenePreferences(st), models, 1)[1]
              ELSE IF models # <<>> THEN models[1] ELSE GuessedModel

\* _select_model, on the list get_available_models returned
SelectModel(models, preferred, st) ==
    IF preferred # <<>> /\ preferred[1] # <<>>
       /\ Matching(Lower(preferred[1]), models) # <<>>
    THEN Matching(Lower(preferred[1]), models)[1]
    ELSE IF Matching(<<"w", "a", "n">>, models) # <<>>
         THEN Matching(<<"w", "a", "n">>, models)[1]
         ELSE IF PreferenceLoop(ScenePreferences(st), models, 1) # <<>>
              THEN PreferenceLoop(ScenePreferences(st), models, 1)[1]
              ELSE IF models # <<>> THEN models[1] ELSE GuessedModel

\* the lists of distinct models of the pool, up to MaxCatalog long
RECURSIVE CatalogsOfLen(_)
CatalogsOfLen(n) ==
    IF n = 0
    THEN {<<>>}
    ELSE {Append(cat, m) : cat \in CatalogsOfLen(n - 1), m \in ModelPool}

Distinct(cat) == \A i, j \in 1..Len(cat) : cat[i] = cat[j] => i = j

Catalogs == {cat \in UNION {CatalogsOfLen(n) : n \in 0..MaxCatalog} : Distinct(cat)}

\* the answers of GET /object_info
ObjectInfoResponses ==
    {[http |-> h, shape |-> "none", names |-> <<>>] : h \in {"transport_error", "status_500"}}
    \cup {[http |-> "ok", shape |-> "flat", names |-> cat] : cat \in Catalogs}
    \cup {[http |-> "ok", shape |-> sh, names |-> <<EpicRealism, WanModel>>] :
            sh \in {"single", "required", "no_loader"}}

NoResponse == [http |-> "none", shape |-> "none", names |-> <<>>]

SelectIdle ==
    /\ object_info = NoResponse
    /\ preferred_wan = <<>>
    /\ scene_type = "fight_scene"
    /\ available_models = <<>>
    /\ model_name = <<>>
    /\ select_pc = "idle"

\* _select_model(preferred_wan, scene_type) is about to run against a pod
InitSelect ==
    /\ object_info \in ObjectInfoResponses
    /\ preferred_wan \in PreferredChoices
    /\ scene_type \in SceneTypes
    /\ available_models = <<>>
    /\ model_name = <<>>
    /\ select_pc = "ready"

\* _select_model runs: get_available_models, then the selection
SelectModelCall ==
    /\ select_pc = "ready"
    /\ available_models' = GetAvailableModels(object_info)
    /\ model_name' = SelectModel(GetAvailableModels(object_info), preferred_wan,
                                 scene_type)
    /\ select_pc' = "done"
    /\ UNCHANGED <<object_info, preferred_wan, scene_type>>
    /\ UNCHANGED <<clientVars, graphVars, probeVars, promptVars, appVars>>

(***************************************************************************)
(* Workflow graphs.  A node is [class_type, inputs, params]: inputs holds   *)
(* the inputs that are links <<producer node id, output slot>>, params the *)
(* literal inputs the properties read.  Prompt texts, titles and file name *)
(* prefixes are left out.  cfg and strength are in tenths.                 *)
(***************************************************************************)
Node(class, inputs, params) ==
    [class_type |-> class, inputs |-> inputs, params |-> params]

\* workflow[id] = node
Put(wf, id, node) == [k \in DOMAIN wf \cup {id} |-> IF k = id THEN node ELSE wf[k]]

\* workflow[id]["inputs"][name] = link
SetInput(wf, id, name, link) ==
    [wf EXCEPT ![id] = [@ EXCEPT !.inputs = (name :> link) @@ wf[id].inputs]]

\* the seven nodes every image workflow starts from
BaseWorkflow(sampler, ckpt_name, width, height, filename_prefix) ==
    [id \in {"1", "2", "3", "4", "5", "8", "9"} |->
        CASE id = "1" -> Node("CLIPTextEncode", [clip |-> <<"4", 1>>], EmptyObject)
          [] id = "2" -> Node("CLIPTextEncode", [clip |-> <<"4", 1>>], EmptyObject)
          [] id = "3" -> Node("KSampler",
                              [model |-> <<"4", 0>>, positive |-> <<"1", 0>>,
                               negative |-> <<"2", 0>>, latent_image |-> <<"5", 0>>],
                              sampler)
          [] id = "4" -> Node("CheckpointLoaderSimple", EmptyObject,
                              [ckpt_name |-> ckpt_name])
          [] id = "5" -> Node("EmptyLatentImage", EmptyObject,
                              [width |-> width, height |-> height, batch_size |-> 1])
          [] id = "8" -> Node("VAEDecode",
                              [samples |-> <<"3", 0>>, vae |-> <<"4", 2>>], EmptyObject)
          [] id = "9" -> Node("SaveImage", [images |-> <<"8", 0>>],
                              [filename_prefix |-> filename_prefix])]

ControlNetName(type) == <<"control_", type, "_sd15.pth">>

\* the request's optional values: <<>> is None, <<v>> is v
IsSet(opt) == opt # <<>>

(***************************************************************************)
(* ComfyUIClient._create_workflow                                          *)
(***************************************************************************)
\* ComfyUIClient._get_model_name
ComfyModelName(st) ==
    CASE st = "car_chase" -> "realisticVisionV60_v60B1.safetensors"
      [] st = "fight_scene" -> "epicrealismXL_v10.safetensors"
      [] st = "explosion" -> "juggernautXL_v8Rundiffusion.safetensors"
      [] st = "aerial_combat" -> "dreamshaper_8.safetensors"
      [] st = "space_battle" -> "scientificDiffusion_v10.safetensors"
      [] OTHER -> "realisticVisionV60_v60B1.safetensors"

\* ComfyUIClient._add_controlnet_nodes
ComfyAddControlnet(wf, cn) ==
    LET w10 == Put(wf, "10", Node("ControlNetLoader", EmptyObject,
                                  [control_net_name |-> ControlNetName(cn.type)]))
        w11 == IF cn.type = "openpose"
               THEN Put(w10, "11", Node("OpenposePreprocessor",
                                        [image |-> <<"12", 0>>], EmptyObject))
               ELSE w10
        w13 == Put(w11, "13", Node("ControlNetApply",
                                   [conditioning |-> <<"1", 0>>,
                                    control_net |-> <<"10", 0>>,
                                    image |-> <<"11", 0>>],
                                   [strength |-> cn.strength]))
    IN SetInput(w13, "3", "positive", <<"13", 0>>)

\* the loop of ComfyUIClient._add_lora_nodes from the i-th LoRA on: the
\* workflow with the loaders added, and the last loader's node id
RECURSIVE ComfyLoraLoop(_, _, _, _)
ComfyLoraLoop(wf, lora_models, i, last) ==
    IF i > Len(lora_models)
    THEN [workflow |-> wf, last |-> last]
    ELSE LET node_id == ToString(20 + i - 1)
         IN ComfyLoraLoop(
                Put(wf, node_id, Node("LoraLoader",
                                      [model |-> <<last, 0>>, clip |-> <<last, 1>>],
                                      [lora_name |-> lora_models[i]])),
                lora_models, i + 1, node_id)

\* a faulty variant of ComfyAddLoras: the negative text encoder is left on the
\* checkpoint loader's clip
ComfyAddLorasPositiveOnly(wf, lora_models) ==
    LET looped == ComfyLoraLoop(wf, lora_models, 1, "4")
        w1 == SetInput(looped.workflow, "1", "clip", <<looped.last, 1>>)
    IN SetInput(w1, "3", "model", <<looped.last, 0>>)

\* ComfyUIClient._add_lora_nodes
ComfyAddLoras(wf, lora_models) ==
    LET looped == ComfyLoraLoop(wf, lora_models, 1, "4")
        w1 == SetInput(looped.workflow, "1", "clip", <<looped.last, 1>>)
        w2 == SetInput(w1, "2", "clip", <<looped.last, 1>>)
    IN SetInput(w2, "3", "model", <<looped.last, 0>>)

\* ComfyUIClient._create_workflow: `config.seed or -1`
ComfyCreateWorkflow(req) ==
    LET base == BaseWorkflow(
                    [seed |-> IF IsSet(req.seed) /\ req.seed[1] # 0
                              THEN req.seed[1] ELSE -1,
                     steps |-> req.steps, cfg |-> req.cfg_scale,
                     sampler_name |-> "euler", scheduler |-> "normal"],
                    ComfyModelName(req.scene_type), req.width, req.height,
                    "action_scene_" \o req.scene_type)
        withCn == IF IsSet(req.controlnet) /\ req.controlnet[1].enabled
                  THEN ComfyAddControlnet(base, req.controlnet[1])
                  ELSE base
    IN IF req.lora_models # <<>>
       THEN ComfyAddLoras(withCn, req.lora_models)
       ELSE withCn

(***************************************************************************)
(* RunPodClient._create_runpod_workflow                                    *)
(***************************************************************************)
\* a faulty variant of WanOptimizations: the name is searched as it is written,
\* not in lower case
WanOptimizationsCaseSensitive(name) ==
    IF Contains(<<"w", "a", "n">>, name)
    THEN [sampler |-> "dpmpp_2m_karras", scheduler |-> "karras", steps |-> 25,
          cfg_scale |-> 65, clip_skip |-> 2]
    ELSE [sampler |-> "euler_a", scheduler |-> "normal", steps |-> 28,
          cfg_scale |-> 75, clip_skip |-> 1]

\* RunPodClient._get_wan_optimizations
WanOptimizations(name) ==
    IF Contains(<<"w", "a", "n">>, Lower(name))
    THEN [sampler |-> "dpmpp_2m_karras", scheduler |-> "karras", steps |-> 25,
          cfg_scale |-> 65, clip_skip |-> 2]
    ELSE [sampler |-> "euler_a", scheduler |-> "normal", steps |-> 28,
          cfg_scale |-> 75, clip_skip |-> 1]

\* RunPodClient._add_controlnet_nodes
RunPodAddControlnet(wf, cn) ==
    LET w11 == Put(wf, "11", Node("ControlNetLoader", EmptyObject,
                                  [control_net_name |-> ControlNetName(cn.type)]))
        w12 == Put(w11, "12", Node("LoadImage", EmptyObject,
                                   [image |-> "CONTROLNET_IMAGE_PLACEHOLDER"]))
        w13 == CASE cn.type = "openpose" ->
                      Put(w12, "13", Node("OpenposePreprocessor",
                                          [image |-> <<"12", 0>>], EmptyObject))
                 [] cn.type = "canny" ->
                      Put(w12, "13", Node("CannyEdgePreprocessor",
                                          [image |-> <<"12", 0>>],
                                          [low_threshold |-> 100,
                                           high_threshold |-> 200]))
                 [] OTHER -> w12
        w14 == Put(w13, "14", Node("ControlNetApply",
                                   [conditioning |-> <<"1", 0>>,
                                    control_net |-> <<"11", 0>>,
                                    image |-> <<"13", 0>>],
                                   [strength |-> cn.strength]))
    IN SetInput(w14, "3", "positive", <<"14", 0>>)

\* the body of RunPodClient._create_runpod_workflow, called at second `clock`,
\* with the seed it gives the sampler
RunPodWorkflowWithSeed(req, clock, seed) ==
    LET wan_settings == WanOptimizations(req.model_name)
        base == BaseWorkflow(
                    [seed |-> seed,
                     steps |-> wan_settings.steps, cfg |-> wan_settings.cfg_scale,
                     sampler_name |-> wan_settings.sampler,
                     scheduler |-> wan_settings.scheduler],
                    req.model_name, req.width, req.height,
                    "action_" \o req.scene_type \o "_" \o ToString(clock))
        skipped == IF wan_settings.clip_skip > 1
                   THEN SetInput(
                            SetInput(
                                Put(base, "10",
                                    Node("CLIPSetLastLayer", [clip |-> <<"4", 1>>],
                                         [stop_at_clip_layer |-> -wan_settings.clip_skip])),
                                "1", "clip", <<"10", 0>>),
                            "2", "clip", <<"10", 0>>)
                   ELSE base
    IN IF IsSet(req.controlnet) /\ req.controlnet[1].enabled
       THEN RunPodAddControlnet(skipped, req.controlnet[1])
       ELSE skipped

\* a faulty variant of RunPodCreateWorkflow: a request without a seed gets the
\* clock's second as its seed
RunPodCreateWorkflowClockSeed(req, clock) ==
    RunPodWorkflowWithSeed(req, clock, IF IsSet(req.seed) THEN req.seed[1] ELSE clock)

\* RunPodClient._create_runpod_workflow:
\* `config.seed if config.seed is not None else 42`
RunPodCreateWorkflow(req, clock) ==
    RunPodWorkflowWithSeed(req, clock, IF IsSet(req.seed) THEN req.seed[1] ELSE 42)

(***************************************************************************)
(* WANModelHandler.create_wan_workflow                                     *)
(***************************************************************************)
\* WANModelHandler.get_wan_model_config
WanModelConfig(name) ==
    IF Contains(<<"w", "a", "n">>, Lower(name))
    THEN [sampler |-> "dpmpp_2m", scheduler |-> "karras", steps |-> 25,
          cfg_scale |-> 60, clip_skip |-> 2]
    ELSE [sampler |-> "euler_a", scheduler |-> "normal", steps |-> 30,
          cfg_scale |-> 75, clip_skip |-> 1]

\* model_name.split('.')[0]
BeforeDot(s) ==
    IF \E i \in 1..Len(s) : s[i] = "."
    THEN SubSeq(s, 1, (CHOOSE i \in 1..Len(s) :
                          s[i] = "." /\ \A j \in 1..(i - 1) : s[j] # ".") - 1)
    ELSE s

\* a faulty variant of WanHandlerWorkflow: the clip-set-layer node is added
\* and the text encoders are left on the checkpoint loader's clip
WanHandlerWorkflowNotRewired(req) ==
    LET config == WanModelConfig(req.model_name)
        base == BaseWorkflow(
                    [seed |-> 42, steps |-> config.steps, cfg |-> config.cfg_scale,
                     sampler_name |-> config.sampler, scheduler |-> config.scheduler],
                    req.model_name, 512, 512,
                    <<"wan_action_">> \o BeforeDot(req.model_name))
    IN IF config.clip_skip > 1
       THEN Put(base, "10",
                Node("CLIPSetLastLayer", [clip |-> <<"4", 1>>],
                     [stop_at_clip_layer |-> -config.clip_skip]))
       ELSE base

\* WANModelHandler.create_wan_workflow(model_name, use_controlnet); the body
\* does not read use_controlnet
WanHandlerWorkflow(req) ==
    LET config == WanModelConfig(req.model_name)
        base == BaseWorkflow(
                    [seed |-> 42, steps |-> config.steps, cfg |-> config.cfg_scale,
                     sampler_name |-> config.sampler, scheduler |-> config.scheduler],
                    req.model_name, 512, 512,
                    <<"wan_action_">> \o BeforeDot(req.model_name))
    IN IF config.clip_skip > 1
       THEN SetInput(
                SetInput(
                    Put(base, "10",
                        Node("CLIPSetLastLayer", [clip |-> <<"4", 1>>],
                             [stop_at_clip_layer |-> -config.clip_skip])),
                    "1", "clip", <<"10", 0>>),
                "2", "clip", <<"10", 0>>)
       ELSE base

(***************************************************************************)
(* ActionWorkflowTemplate                                                  *)
(***************************************************************************)
\* ActionWorkflowTemplate._get_preprocessor_class
PreprocessorClass(type) ==
    CASE type = "openpose" -> "OpenposePreprocessor"
      [] type = "canny" -> "CannyEdgePreprocessor"
      [] type = "depth" -> "MiDaS-DepthMapPreprocessor"
      [] type = "lineart" -> "LineArtPreprocessor"
      [] type = "normal" -> "BAE-NormalMapPreprocessor"
      [] type = "seg" -> "SemSegPreprocessor"
      [] OTHER -> "OpenposePreprocessor"

\* ActionWorkflowTemplate._create_image_workflow: base_settings["wan_settings"],
\* params.get("seed", 42)
TemplateImageWorkflow(req) ==
    BaseWorkflow([seed |-> IF IsSet(req.seed) THEN req.seed[1] ELSE 42,
                  steps |-> 25, cfg |-> 65,
                  sampler_name |-> "dpmpp_2m_karras", scheduler |-> "karras"],
                 req.model_name, req.width, req.height, "action_scene")

\* the loop of _create_multi_controlnet_workflow from index i (from 0) on
RECURSIVE TemplateControlnetLoop(_, _, _)
TemplateControlnetLoop(base, controlnets, i) ==
    IF i >= Len(controlnets)
    THEN base
    ELSE LET cn == controlnets[i + 1]
             cn_id == 10 + (i * 4)
             loader == Put(base, ToString(cn_id),
                           Node("ControlNetLoader", EmptyObject,
                                [control_net_name |-> ControlNetName(cn.type)]))
             image == Put(loader, ToString(cn_id + 1),
                          Node("LoadImage", EmptyObject, [image |-> "cn.image"]))
             pre == Put(image, ToString(cn_id + 2),
                        Node(PreprocessorClass(cn.type),
                             [image |-> <<ToString(cn_id + 1), 0>>], EmptyObject))
             input_conditioning == IF i = 0 THEN <<"1", 0>>
                                   ELSE <<ToString(cn_id - 1), 0>>
             apply == Put(pre, ToString(cn_id + 3),
                          Node("ControlNetApply",
                               [conditioning |-> input_conditioning,
                                control_net |-> <<ToString(cn_id), 0>>,
                                image |-> <<ToString(cn_id + 2), 0>>],
                               [strength |-> cn.strength]))
         IN TemplateControlnetLoop(apply, controlnets, i + 1)

\* ActionWorkflowTemplate._create_sketch_to_image_workflow
TemplateSketchToImage(req) ==
    LET cn == req.controlnet[1]
        w10 == Put(TemplateImageWorkflow(req), "10",
                   Node("ControlNetLoader", EmptyObject,
                        [control_net_name |-> ControlNetName(cn.type)]))
        w11 == Put(w10, "11", Node("LoadImage", EmptyObject,
                                   [image |-> "control_image"]))
        w12 == Put(w11, "12", Node(PreprocessorClass(cn.type),
                                   [image |-> <<"11", 0>>], EmptyObject))
        w13 == Put(w12, "13", Node("ControlNetApply",
                                   [conditioning |-> <<"1", 0>>,
                                    control_net |-> <<"10", 0>>,
                                    image |-> <<"12", 0>>],
                                   [strength |-> cn.strength]))
    IN SetInput(w13, "3", "positive", <<"13", 0>>)

\* ActionWorkflowTemplate._create_text_to_video_workflow
TemplateTextToVideo(req) ==
    [id \in {"1", "2", "3", "4", "5", "6", "7"} |->
        CASE id = "1" -> Node("CLIPTextEncode", [clip |-> <<"4", 1>>], EmptyObject)
          [] id = "2" -> Node("CLIPTextEncode", [clip |-> <<"4", 1>>], EmptyObject)
          [] id = "3" -> Node("CheckpointLoaderSimple", EmptyObject,
                              [ckpt_name |-> req.model_name])
          [] id = "4" -> Node("EmptyLatentVideo", EmptyObject,
                              [width |-> req.width, height |-> req.height,
                               length |-> 24, batch_size |-> 1])
          [] id = "5" -> Node("VideoKSampler",
                              [model |-> <<"3", 0>>, positive |-> <<"1", 0>>,
                               negative |-> <<"2", 0>>, latent |-> <<"4", 0>>],
                              [seed |-> IF IsSet(req.seed) THEN req.seed[1] ELSE 42,
                               steps |-> 20, cfg |-> 70])
          [] id = "6" -> Node("VAEDecodeVideo",
                              [samples |-> <<"5", 0>>, vae |-> <<"3", 2>>], EmptyObject)
          [] id = "7" -> Node("SaveVideo", [images |-> <<"6", 0>>],
                              [filename_prefix |-> "action_video"])]

\* ActionWorkflowTemplate._create_image_to_video_workflow
TemplateImageToVideo(req) ==
    [id \in {"1", "2", "3", "4", "5", "6", "7", "8", "9"} |->
        CASE id = "1" -> Node("LoadImage", EmptyObject, [image |-> "input_image"])
          [] id = "2" -> Node("CLIPTextEncode", [clip |-> <<"5", 1>>], EmptyObject)
          [] id = "3" -> Node("CLIPTextEncode", [clip |-> <<"5", 1>>], EmptyObject)
          [] id = "4" -> Node("VAEEncode",
                              [pixels |-> <<"1", 0>>, vae |-> <<"5", 2>>], EmptyObject)
          [] id = "5" -> Node("CheckpointLoaderSimple", EmptyObject,
                              [ckpt_name |-> req.model_name])
          [] id = "6" -> Node("ImageToVideoLatent", [samples |-> <<"4", 0>>],
                              [frame_count |-> 24])
          [] id = "7" -> Node("VideoKSampler",
                              [model |-> <<"5", 0>>, positive |-> <<"2", 0>>,
                               negative |-> <<"3", 0>>, latent_video |-> <<"6", 0>>],
                              [seed |-> IF IsSet(req.seed) THEN req.seed[1] ELSE 42,
                               steps |-> 15, cfg |-> 60])
          [] id = "8" -> Node("VAEDecodeVideo",
                              [samples |-> <<"7", 0>>, vae |-> <<"5", 2>>], EmptyObject)
          [] id = "9" -> Node("SaveVideo", [images |-> <<"8", 0>>],
                              [filename_prefix |-> "fight_sequence"])]

\* ActionWorkflowTemplate._create_video_to_video_workflow
TemplateVideoToVideo(req) ==
    [id \in {"1", "2", "3", "4", "5", "6", "7", "8"} |->
        CASE id = "1" -> Node("LoadVideo", EmptyObject, [video |-> "input_video"])
          [] id = "2" -> Node("CLIPTextEncode", [clip |-> <<"6", 1>>], EmptyObject)
          [] id = "3" -> Node("CLIPTextEncode", [clip |-> <<"6", 1>>], EmptyObject)
          [] id = "4" -> Node("VAEEncodeVideo",
                              [images |-> <<"1", 0>>, vae |-> <<"6", 2>>], EmptyObject)
          [] id = "5" -> Node("VideoKSampler",
                              [model |-> <<"6", 0>>, positive |-> <<"2", 0>>,
                               negative |-> <<"3", 0>>, latent_video |-> <<"4", 0>>],
                              [seed |-> IF IsSet(req.seed) THEN req.seed[1] ELSE 42,
                               steps |-> 12, cfg |-> 55])
          [] id = "6" -> Node("CheckpointLoaderSimple", EmptyObject,
                              [ckpt_name |-> req.model_name])
          [] id = "7" -> Node("VAEDecodeVideo",
                              [samples |-> <<"5", 0>>, vae |-> <<"6", 2>>], EmptyObject)
          [] id = "8" -> Node("SaveVideo", [images |-> <<"7", 0>>],
                              [filename_prefix |-> "v2v_action"])]

\* the loop of _create_batch_workflow over enumerate(batch_prompts[:4]), from
\* index i (from 0) on
RECURSIVE TemplateBatchLoop(_, _, _)
TemplateBatchLoop(base, batch_prompts, i) ==
    IF i >= Len(batch_prompts)
    THEN base
    ELSE TemplateBatchLoop(
             Put(base, "1_" \o ToString(i),
                 Node("CLIPTextEncode", [clip |-> <<"4", 1>>],
                      [text |-> batch_prompts[i + 1]])),
             batch_prompts, i + 1)

\* ActionWorkflowTemplate._create_batch_workflow: params.get("batch_size", 4),
\* `if "batch_prompts" in params`
TemplateBatchWorkflow(req) ==
    LET image == TemplateImageWorkflow(req)
        base == [image EXCEPT !["5"] = [@ EXCEPT !.params =
                                           [@ EXCEPT !.batch_size = 4]]]
    IN IF IsSet(req.batch_prompts)
       THEN TemplateBatchLoop(base,
                              SubSeq(req.batch_prompts[1], 1,
                                     IF Len(req.batch_prompts[1]) < 4
                                     THEN Len(req.batch_prompts[1]) ELSE 4),
                              0)
       ELSE base

\* a faulty variant of TemplateMultiControlnet: the sampler's positive input
\* is pointed at the first apply node instead of the last
TemplateMultiControlnetFirst(req) ==
    SetInput(TemplateControlnetLoop(TemplateImageWorkflow(req), req.controlnets, 0),
             "3", "positive", <<"13", 0>>)

\* ActionWorkflowTemplate._create_multi_controlnet_workflow
TemplateMultiControlnet(req) ==
    LET base == TemplateControlnetLoop(TemplateImageWorkflow(req), req.controlnets, 0)
        final_cn == Len(req.controlnets) * 4 + 9
    IN SetInput(base, "3", "positive", <<ToString(final_cn), 0>>)

\* ActionWorkflowTemplate.generate_workflow; its callers pass a member of
\* WorkflowType, so the ValueError after the last branch is not raised
GenerateWorkflow(req) ==
    CASE req.workflow_type = "image_generation" -> TemplateImageWorkflow(req)
      [] req.workflow_type = "sketch_to_image" -> TemplateSketchToImage(req)
      [] req.workflow_type = "text_to_video" -> TemplateTextToVideo(req)
      [] req.workflow_type = "image_to_video" -> TemplateImageToVideo(req)
      [] req.workflow_type = "video_to_video" -> TemplateVideoToVideo(req)
      [] req.workflow_type = "batch_generation" -> TemplateBatchWorkflow(req)
      [] req.workflow_type = "controlnet_multi" -> TemplateMultiControlnet(req)

(***************************************************************************)
(* Requests.                                                               *)
(***************************************************************************)
\* the six types of the preprocessor table, and one it does not have
ControlnetTypes == {"openpose", "canny", "depth", "lineart", "normal", "seg",
                    "scribble"}
Seeds == {<<>>, <<0>>, <<7>>}
Widths == {512, 700}
LoraNames == {"hero_lora", "style_lora"}

Controlnets == [type : ControlnetTypes, enabled : BOOLEAN, strength : {8}]

RECURSIVE ListsOfLen(_, _)
ListsOfLen(S, n) ==
    IF n = 0 THEN {<<>>}
    ELSE {Append(l, x) : l \in ListsOfLen(S, n - 1), x \in S}

ListsUpTo(S, n) == UNION {ListsOfLen(S, k) : k \in 0..n}

\* what each builder is called with; the fields a builder does not read are
\* fixed
AllBatchPrompts == <<"car chase", "rooftop fight", "explosion", "sword duel",
                     "bar brawl", "shootout">>

\* "batch_prompts" missing from params, or a list of prompts
BatchPrompts ==
    {<<>>} \cup {<<SubSeq(AllBatchPrompts, 1, n)>> : n \in 0..MaxBatchPrompts}

\* the fields every request below fixes
Fixed ==
    [height : {512}, steps : {30}, cfg_scale : {70}, scene_type : {"fight_scene"}]

\* r with the fields of s added
With(r, s) == r @@ s

Requests ==
    {With(r, f) : f \in Fixed, r \in
        [builder : {"comfyui"}, workflow_type : {"none"}, seed : Seeds,
         width : Widths, model_name : {EpicRealism},
         controlnet : {<<>>} \cup {<<cn>> : cn \in Controlnets},
         controlnets : {<<>>}, lora_models : ListsUpTo(LoraNames, MaxLoras),
         batch_prompts : {<<>>}]
        \cup
        [builder : {"runpod"}, workflow_type : {"none"}, seed : Seeds,
         width : Widths, model_name : {EpicRealism, WanModel, StableDiffusion15},
         controlnet : {<<>>} \cup {<<cn>> : cn \in Controlnets},
         controlnets : {<<>>}, lora_models : {<<>>}, batch_prompts : {<<>>}]
        \cup
        [builder : {"wan_handler"}, workflow_type : {"none"}, seed : {<<>>},
         width : {512}, model_name : ModelPool,
         controlnet : {<<>>}, controlnets : {<<>>}, lora_models : {<<>>},
         batch_prompts : {<<>>}]
        \cup
        [builder : {"template"}, workflow_type : {"controlnet_multi"}, seed : Seeds,
         width : Widths, model_name : {EpicRealism},
         controlnet : {<<>>},
         controlnets : ListsUpTo({cn \in Controlnets : cn.enabled}, MaxControlnets),
         lora_models : {<<>>}, batch_prompts : {<<>>}]
        \cup
        [builder : {"template"}, workflow_type : {"sketch_to_image"}, seed : Seeds,
         width : Widths, model_name : {EpicRealism},
         controlnet : {<<cn>> : cn \in {c \in Controlnets : c.enabled}},
         controlnets : {<<>>}, lora_models : {<<>>}, batch_prompts : {<<>>}]
        \cup
        [builder : {"template"}, workflow_type : {"image_generation", "text_to_video"},
         seed : Seeds, width : Widths, model_name : {EpicRealism},
         controlnet : {<<>>}, controlnets : {<<>>}, lora_models : {<<>>},
         batch_prompts : {<<>>}]
        \cup
        [builder : {"template"}, workflow_type : {"image_to_video", "video_to_video"},
         seed : Seeds, width : {512}, model_name : {EpicRealism},
         controlnet : {<<>>}, controlnets : {<<>>}, lora_models : {<<>>},
         batch_prompts : {<<>>}]
        \cup
        [builder : {"template"}, workflow_type : {"batch_generation"}, seed : Seeds,
         width : Widths, model_name : {EpicRealism},
         controlnet : {<<>>}, controlnets : {<<>>}, lora_models : {<<>>},
         batch_prompts : BatchPrompts]}

NoRequest ==
    [builder |-> "none", workflow_type |-> "none", seed |-> <<>>, width |-> 512,
     height |-> 512, steps |-> 30, cfg_scale |-> 70, scene_type |-> "fight_scene",
     model_name |-> EpicRealism, controlnet |-> <<>>, controlnets |-> <<>>,
     lora_models |-> <<>>, batch_prompts |-> <<>>]

GraphIdle ==
    /\ request = NoRequest
    /\ workflow = EmptyObject
    /\ build_pc = "idle"
    /\ now = 0
    /\ previous = NoValue

\* a builder is about to run on a request
InitGraph ==
    /\ request \in Requests
    /\ workflow = EmptyObject
    /\ build_pc = "ready"
    /\ now = 0
    /\ previous = NoValue

\* a build called at second `clock` returns wf; a caller builds the graph of
\* one request at most twice
Built(wf, clock) ==
    /\ build_pc = "ready" \/ (build_pc = "done" /\ previous = NoValue)
    /\ previous' = IF build_pc = "done" THEN workflow ELSE NoValue
    /\ workflow' = wf
    /\ build_pc' = "done"
    /\ now' = clock
    /\ UNCHANGED request
    /\ UNCHANGED <<clientVars, selectVars, probeVars, promptVars, appVars>>

\* ComfyUIClient._create_workflow(prompt, scene_params, config)
BuildComfy ==
    /\ request.builder = "comfyui"
    /\ \E clock \in now..MaxClock : Built(ComfyCreateWorkflow(request), clock)

\* RunPodClient._create_runpod_workflow(prompt, scene_params, config, model_name)
BuildRunPod ==
    /\ request.builder = "runpod"
    /\ \E clock \in now..MaxClock : Built(RunPodCreateWorkflow(request, clock), clock)

\* ActionWorkflowTemplate.generate_workflow(workflow_type, params)
BuildTemplate ==
    /\ request.builder = "template"
    /\ \E clock \in now..MaxClock : Built(GenerateWorkflow(request), clock)

\* WANModelHandler.create_wan_workflow(model_name)
BuildWanHandler ==
    /\ request.builder = "wan_handler"
    /\ \E clock \in now..MaxClock : Built(WanHandlerWorkflow(request), clock)

NextGraph == BuildComfy \/ BuildRunPod \/ BuildTemplate \/ BuildWanHandler

(***************************************************************************)
(* health_check of RunPodClient and ComfyUIClient: GET /system_stats.      *)
(***************************************************************************)
StatusCodes == {200, 204, 304, 404, 500, 503}

\* what the GET ends with: an exception of the HTTP library (requests for
\* RunPodClient, aiohttp for ComfyUIClient), or a response with a status code
ProbeAnswers(b) ==
    {[exc |-> e, status_code |-> 0] :
        e \in IF b = "runpod" THEN {"ConnectionError", "Timeout"}
              ELSE {"ClientConnectorError", "ServerDisconnectedError"}}
    \cup {[exc |-> "none", status_code |-> code] : code \in StatusCodes}

\* the exception classes `except Exception` catches: every class the HTTP
\* libraries raise derives from Exception
CaughtByExceptException ==
    {"ConnectionError", "Timeout", "ClientConnectorError", "ServerDisconnectedError"}

\* a faulty variant of HealthCheckResult: every status below 400 counts as
\* healthy (requests' response.ok)
HealthCheckResultOk(b, answer) ==
    IF answer.exc # "none"
    THEN IF answer.exc \in CaughtByExceptException
         THEN [raised |-> FALSE, value |-> FALSE]
         ELSE [raised |-> TRUE, exc |-> answer.exc]
    ELSE [raised |-> FALSE, value |-> answer.status_code < 400]

\* health_check: `return response.status_code == 200` inside try, `return
\* False` in `except Exception`
HealthCheckResult(b, answer) ==
    IF answer.exc # "none"
    THEN IF answer.exc \in CaughtByExceptException
         THEN [raised |-> FALSE, value |-> FALSE]
         ELSE [raised |-> TRUE, exc |-> answer.exc]
    ELSE [raised |-> FALSE, value |-> answer.status_code = 200]

ProbeIdle == probes = <<>>

\* a caller awaits client.health_check() on a client of backend b
HealthCheck(b) ==
    /\ Len(probes) < MaxProbes
    /\ \E answer \in ProbeAnswers(b) :
          probes' = Append(probes, [backend |-> b, answer |-> answer,
                                    out |-> HealthCheckResult(b, answer)])
    /\ UNCHANGED <<clientVars, selectVars, graphVars, promptVars, appVars>>

NextProbe == \E b \in Backends : HealthCheck(b)

(***************************************************************************)
(* ActionPromptBuilder.build_action_prompt and                             *)
(* ReplicateClient._build_safe_prompt.  Prompts are strings; the enum      *)
(* members of SceneType, ViolenceLevel and CameraAngle are written by      *)
(* their lower-case names.                                                 *)
(***************************************************************************)
\* self.scene_keywords
scene_keywords ==
    [car_chase |-> <<"high-speed car chase", "vehicle pursuit", "racing through streets",
                     "police chase", "dramatic driving", "tire screeching", "speed blur">>,
     fight_scene |-> <<"intense combat", "martial arts fight", "hand-to-hand combat",
                       "fighting poses", "action choreography", "dynamic movement">>,
     explosion |-> <<"massive explosion", "fireball", "debris flying", "blast wave",
                     "smoke and fire", "destruction", "impact crater">>,
     shootout |-> <<"gunfight", "muzzle flashes", "cover shooting", "tactical combat",
                    "bullets flying", "action movie shootout">>,
     aerial_combat |-> <<"dogfight", "aerial battle", "fighter jets", "missiles firing",
                         "aerial maneuvers", "sky combat", "aircraft battle">>,
     space_battle |-> <<"space warfare", "starships fighting", "laser beams",
                        "spacecraft battle", "cosmic conflict", "space combat",
                        "interstellar war">>,
     boxing_match |-> <<"boxing match", "boxing ring", "fighting stance", "punch impact",
                        "athletic combat", "sport fighting", "boxing gloves">>,
     martial_arts |-> <<"martial arts", "kung fu fighting", "karate combat", "taekwondo",
                        "combat arts", "fighting techniques", "martial combat">>]

\* self.violence_modifiers
violence_modifiers ==
    [pg13 |-> <<"mild action", "bloodless", "family-friendly action",
                "light impact", "non-graphic">>,
     r_rated |-> <<"intense action", "realistic impact", "dramatic violence",
                   "action movie style", "cinematic intensity">>,
     cinematic |-> <<"epic action", "blockbuster style", "cinematic drama",
                     "professional cinematography", "movie quality">>]

\* self.camera_modifiers
camera_modifiers ==
    [wide_shot |-> <<"wide angle shot", "establishing shot", "full scene view",
                     "panoramic view", "environmental context">>,
     medium_shot |-> <<"medium shot", "waist up", "mid-range view",
                       "balanced composition", "character focus">>,
     close_up |-> <<"close-up shot", "facial detail", "intimate view",
                    "emotional intensity", "detailed focus">>,
     low_angle |-> <<"low angle shot", "looking up", "heroic angle",
                     "dramatic perspective", "power shot">>,
     high_angle |-> <<"high angle shot", "bird's eye view", "looking down",
                      "aerial perspective", "overview shot">>,
     dutch_angle |-> <<"dutch angle", "tilted camera", "dynamic angle",
                       "tension angle", "unbalanced composition">>,
     pov |-> <<"point of view shot", "first person view", "character perspective",
               "immersive angle", "subjective camera">>]

\* self.lighting_styles
lighting_styles ==
    [dramatic |-> <<"dramatic lighting", "chiaroscuro", "high contrast", "moody lighting">>,
     action |-> <<"dynamic lighting", "fast-paced lighting", "energetic illumination">>,
     cinematic |-> <<"cinematic lighting", "movie-style lighting", "professional lighting">>,
     night |-> <<"night lighting", "low light", "shadows", "artificial lighting">>,
     day |-> <<"daylight", "natural lighting", "bright illumination">>,
     sunset |-> <<"golden hour", "warm lighting", "sunset glow">>,
     neon |-> <<"neon lighting", "colorful lights", "urban glow", "cyberpunk lighting">>]

\* self.quality_enhancers
quality_enhancers ==
    <<"8k resolution", "ultra detailed", "masterpiece", "best quality",
      "cinematic composition", "professional photography", "award winning",
      "hyper realistic", "photorealistic", "sharp focus", "high definition">>

\* self.action_enhancers
action_enhancers ==
    <<"dynamic pose", "action shot", "motion blur", "speed lines",
      "impact frame", "explosive moment", "kinetic energy", "dramatic timing",
      "freeze frame", "action sequence", "stunt choreography">>

\* list[:n]
Take(list, n) == SubSeq(list, 1, IF Len(list) < n THEN Len(list) ELSE n)

\* sep.join(list)
RECURSIVE Join(_, _)
Join(sep, list) ==
    IF list = <<>> THEN ""
    ELSE IF Len(list) = 1 THEN list[1]
    ELSE list[1] \o sep \o Join(sep, Tail(list))

\* table[key][:n] if key in table, else nothing
TableWords(table, key, n) ==
    IF key \in DOMAIN table THEN Take(table[key], n) ELSE <<>>

SettingPart(sp) ==
    IF sp.setting # "" THEN <<"set in " \o sp.setting>> ELSE <<>>

\* `{time_of_day} time` unless it is "day", then `{weather} weather` if set
TimeWeatherPart(sp) ==
    (IF sp.time_of_day # "day" THEN <<sp.time_of_day \o " time">> ELSE <<>>)
    \o (IF sp.weather # "" THEN <<sp.weather \o " weather">> ELSE <<>>)

MotionPart(sp) ==
    IF sp.motion_blur THEN <<"motion blur", "speed effect">> ELSE <<>>

\* a faulty variant of CharacterPart: the cap [:2] is missing
CharacterPartUncapped(sp) ==
    IF sp.characters # <<>>
    THEN <<"featuring " \o Join(", ", sp.characters)>>
    ELSE <<>>

CharacterPart(sp) ==
    IF sp.characters # <<>>
    THEN <<"featuring " \o Join(", ", Take(sp.characters, 2))>>
    ELSE <<>>

PropPart(sp) ==
    IF sp.props # <<>>
    THEN <<"with " \o Join(", ", Take(sp.props, 3))>>
    ELSE <<>>

\* ActionPromptBuilder.build_action_prompt
BuildActionPrompt(base_prompt, sp) ==
    Join(", ",
         <<base_prompt>>
         \o TableWords(scene_keywords, sp.scene_type, 3)
         \o TableWords(violence_modifiers, sp.violence_level, 2)
         \o TableWords(camera_modifiers, sp.camera_angle, 2)
         \o SettingPart(sp)
         \o TableWords(lighting_styles, sp.lighting, 2)
         \o TimeWeatherPart(sp)
         \o MotionPart(sp)
         \o CharacterPart(sp)
         \o PropPart(sp)
         \o Take(quality_enhancers, 4)
         \o Take(action_enhancers, 3))

\* safe_replacements, in the order the dict lists them
safe_replacements ==
    <<<<"violence", "action">>, <<"blood", "impact effects">>, <<"weapon", "prop">>,
      <<"gun", "device">>, <<"explosion", "special effects">>,
      <<"destruction", "dramatic effects">>, <<"injury", "action sequence">>,
      <<"combat", "choreographed scene">>, <<"fight", "action choreography">>>>

\* str.replace(old, new): every occurrence, left to right, not overlapping
RECURSIVE Replace(_, _, _)
Replace(s, old, new) ==
    LET found == {i \in 1..(Len(s) - Len(old) + 1) : SubSeq(s, i, i + Len(old) - 1) = old}
    IN IF found = {}
       THEN s
       ELSE LET i == CHOOSE k \in found : \A j \in found : k <= j
            IN SubSeq(s, 1, i - 1) \o new
               \o Replace(SubSeq(s, i + Len(old), Len(s)), old, new)

\* the loop over safe_replacements.items(), from the k-th pair on
RECURSIVE ReplaceAll(_, _)
ReplaceAll(s, k) ==
    IF k > Len(safe_replacements)
    THEN s
    ELSE ReplaceAll(Replace(s, safe_replacements[k][1], safe_replacements[k][2]), k + 1)

\* a faulty variant of BuildSafePrompt: the safety terms are put in front
BuildSafePromptTermsFirst(prompt, sp) ==
    "professional stunt choreography, cinematic action, movie production, "
    \o ReplaceAll(BuildActionPrompt(prompt, sp), 1)

\* ReplicateClient._build_safe_prompt
BuildSafePrompt(prompt, sp) ==
    ReplaceAll(BuildActionPrompt(prompt, sp), 1)
    \o ", professional stunt choreography, cinematic action, movie production"

\* the names a scene may list
AllCharacters == <<"martial artist", "street fighter", "action hero",
                   "skilled warrior", "trained combatant">>
AllProps == <<"metal pipes", "broken glass", "fire barrels", "wooden crates",
              "chain-link fence", "martial arts weapons">>

BasePrompts == {"", "a hero leaps", "intense fight scene"}

\* who builds the prompt: ComfyUIClient and RunPodClient call
\* build_action_prompt, ReplicateClient calls _build_safe_prompt
PromptCallers == {"builder", "replicate"}

\* the SceneParameters the callers pass: members in and out of each table
SceneParams ==
    [scene_type : {"fight_scene", "shootout", "chase_on_foot"},
     violence_level : {"r_rated"},
     camera_angle : {"low_angle", "over_the_shoulder"},
     setting : {"", "urban rooftop"},
     lighting : {"dramatic", "candlelight", ""},
     time_of_day : {"day", "night"},
     weather : {"", "rainy"},
     motion_blur : BOOLEAN,
     characters : {Take(AllCharacters, n) : n \in 0..MaxCharacters},
     props : {Take(AllProps, n) : n \in 0..MaxProps}]

PromptArgs == [caller : PromptCallers, base_prompt : BasePrompts, scene_params : SceneParams]

NoPromptArgs ==
    [caller |-> "none", base_prompt |-> "",
     scene_params |-> [scene_type |-> "fight_scene", violence_level |-> "r_rated",
                       camera_angle |-> "low_angle", setting |-> "", lighting |-> "",
                       time_of_day |-> "day", weather |-> "", motion_blur |-> FALSE,
                       characters |-> <<>>, props |-> <<>>]]

PromptIdle ==
    /\ prompt_args = NoPromptArgs
    /\ enhanced_prompt = <<>>

\* a client is about to build the prompt of a generation
InitPrompt ==
    /\ prompt_args \in PromptArgs
    /\ enhanced_prompt = <<>>

\* enhanced_prompt = self.prompt_builder.build_action_prompt(prompt, scene_params)
BuildPrompt ==
    /\ prompt_args.caller = "builder"
    /\ enhanced_prompt = <<>>
    /\ enhanced_prompt' = <<BuildActionPrompt(prompt_args.base_prompt,
                                              prompt_args.scene_params)>>
    /\ UNCHANGED prompt_args
    /\ UNCHANGED <<clientVars, selectVars, graphVars, probeVars, appVars>>

\* enhanced_prompt = self._build_safe_prompt(prompt, scene_params)
BuildSafe ==
    /\ prompt_args.caller = "replicate"
    /\ enhanced_prompt = <<>>
    /\ enhanced_prompt' = <<BuildSafePrompt(prompt_args.base_prompt,
                                            prompt_args.scene_params)>>
    /\ UNCHANGED prompt_args
    /\ UNCHANGED <<clientVars, selectVars, graphVars, probeVars, appVars>>

NextPrompt == BuildPrompt \/ BuildSafe

(***************************************************************************)
(* PricingManager: credits and usage tracking in the session state.        *)
(***************************************************************************)
\* PricingManager.credit_costs
credit_costs ==
    [image_generation |-> ("768x768" :> 1 @@ "1024x1024" :> 2 @@ "1536x1536" :> 4
                           @@ "2048x1536" :> 6),
     sketch_to_image |-> ("768x768" :> 1 @@ "1024x1024" :> 2 @@ "1536x1536" :> 4),
     text_to_video |-> ("768x768" :> 8 @@ "1024x576" :> 10 @@ "1024x1024" :> 12),
     image_to_video |-> ("768x768" :> 6 @@ "1024x576" :> 8 @@ "1024x1024" :> 10),
     video_to_video |-> ("768x768" :> 10 @@ "1024x576" :> 12 @@ "1024x1024" :> 15),
     batch_generation |-> ("multiply_by_batch_size" :> TRUE)]

\* PricingManager.calculate_credits_needed
CalculateCreditsNeeded(workflow_type, resolution, batch_size) ==
    LET base_cost == Get(Get(credit_costs, workflow_type, EmptyObject), resolution, 1)
    IN IF workflow_type = "batch_generation"
       THEN Get(credit_costs["image_generation"], resolution, 1) * batch_size
       ELSE base_cost

\* PricingManager.get_user_credits: st.session_state.get('user_credits', 0)
GetUserCredits(credits) == IF credits = <<>> THEN 0 ELSE credits[1]

\* a faulty variant of Affordable: every generation is affordable
AffordableAlways(credits, credits_needed) == TRUE

\* `user_credits >= credits_needed` of deduct_credits and can_afford_generation
Affordable(credits, credits_needed) == credits >= credits_needed

\* PricingManager._log_usage; the timestamp is left out
LogUsage(history, workflow_type, credits_used, resolution, success) ==
    <<Append(IF history = <<>> THEN <<>> ELSE history[1],
             [workflow_type |-> workflow_type, credits_used |-> credits_used,
              resolution |-> resolution, generation_time |-> 0,
              success |-> success])>>

\* a faulty variant of DeductCreditsResult: the success argument is not read
DeductCreditsCharged(call, credits, history) ==
    LET credits_needed == CalculateCreditsNeeded(call.workflow_type, call.resolution,
                                                 call.batch_size)
    IN IF Affordable(GetUserCredits(credits), credits_needed)
       THEN [returned |-> TRUE,
             user_credits |-> <<GetUserCredits(credits) - credits_needed>>,
             usage_history |-> LogUsage(history, call.workflow_type, credits_needed,
                                        call.resolution, call.success)]
       ELSE [returned |-> FALSE, user_credits |-> credits, usage_history |-> history]

\* PricingManager.deduct_credits: what it returns and leaves in the session
DeductCreditsResult(call, credits, history) ==
    IF ~call.success
    THEN [returned |-> TRUE, user_credits |-> credits, usage_history |-> history]
    ELSE LET credits_needed == CalculateCreditsNeeded(call.workflow_type,
                                                      call.resolution, call.batch_size)
         IN IF Affordable(GetUserCredits(credits), credits_needed)
            THEN [returned |-> TRUE,
                  user_credits |-> <<GetUserCredits(credits) - credits_needed>>,
                  usage_history |-> LogUsage(history, call.workflow_type, credits_needed,
                                             call.resolution, call.success)]
            ELSE [returned |-> FALSE, user_credits |-> credits,
                  usage_history |-> history]

\* the arguments of deduct_credits: a resolution of the table, one the table
\* of the type does not have, a type the table does not have
DeductCalls ==
    [workflow_type : {"image_generation", "text_to_video", "controlnet_multi"},
     resolution : {"768x768", "1024x1024", "2048x1536"}, batch_size : {1},
     success : BOOLEAN]
    \cup
    [workflow_type : {"batch_generation"},
     resolution : {"768x768", "1024x1024", "2048x1536"}, batch_size : {1, 4},
     success : BOOLEAN]

\* the balances a session starts with
InitialCredits == {<<>>, <<0>>, <<5>>, <<30>>}

PricingIdle ==
    /\ user_credits = <<>>
    /\ usage_history = <<>>
    /\ last_deduct = NoValue

InitPricing ==
    /\ user_credits \in InitialCredits
    /\ usage_history = <<>>
    /\ last_deduct = NoValue

\* pricing_manager.deduct_credits(user_id, workflow_type, resolution,
\* batch_size, success)
DeductCredits ==
    /\ IF usage_history = <<>> THEN TRUE
       ELSE Len(usage_history[1]) < MaxDeductions
    /\ \E call \in DeductCalls :
          LET done == DeductCreditsResult(call, user_credits, usage_history)
          IN /\ user_credits' = done.user_credits
             /\ usage_history' = done.usage_history
             /\ last_deduct' = [call |-> call, returned |-> done.returned,
                                credits_before |-> user_credits,
                                history_before |-> usage_history]
    /\ UNCHANGED <<clientVars, selectVars, graphVars, probeVars, promptVars>>
    /\ UNCHANGED <<dbVars, editorVars>>

NextPricing == DeductCredits

(***************************************************************************)
(* StoryboardDatabase.                                                     *)
(***************************************************************************)
DbTasks == {1, 2}
StoryboardIds == {"a", "b"}
Titles == {"Test Action Sequence", "Rooftop Chase"}

\* datetime.isoformat and datetime.fromisoformat, on a time in ticks
IsoFormat(t) == <<"iso", t>>
FromIsoFormat(s) == s[2]

\* the Storyboard objects the callers pass: id, title and the two timestamps
Storyboards ==
    [id : StoryboardIds, title : Titles, created_at : {0}, updated_at : {0}]

\* save_storyboard: model_dump() with the timestamps in ISO format
StoryboardDict(storyboard) ==
    [id |-> storyboard.id, title |-> storyboard.title,
     created_at |-> IsoFormat(storyboard.created_at),
     updated_at |-> IsoFormat(storyboard.updated_at)]

\* get_storyboard: Storyboard(**storyboard_dict) with the timestamps parsed
StoryboardOf(storyboard_dict) ==
    [id |-> storyboard_dict.id, title |-> storyboard_dict.title,
     created_at |-> FromIsoFormat(storyboard_dict.created_at),
     updated_at |-> FromIsoFormat(storyboard_dict.updated_at)]

\* _load_data: json.loads of the file's content; the empty content of a file
\* just opened for writing raises JSONDecodeError, which gives {}
LoadData(file) == IF file = <<>> THEN EmptyObject ELSE file[1]

\* a faulty variant of DeleteKey: nothing is removed
DeleteKeyKept(data, storyboard_id) == data

\* del data[storyboard_id]
DeleteKey(data, storyboard_id) ==
    [k \in DOMAIN data \ {storyboard_id} |-> data[k]]

\* the calls of the database: save_storyboard(storyboard),
\* get_storyboard(id), update_storyboard(id, storyboard), delete_storyboard(id)
DbCalls ==
    [op : {"save"}, storyboard_id : {""}, storyboard : Storyboards]
    \cup [op : {"get", "delete"}, storyboard_id : StoryboardIds,
          storyboard : {NoValue}]
    \cup [op : {"update"}, storyboard_id : StoryboardIds, storyboard : Storyboards]

\* the id a writing call is about
WrittenId(call) == IF call.op = "delete" THEN call.storyboard_id ELSE call.storyboard.id

\* the writing calls the API makes with one id: PUT /storyboards/{id} with
\* the storyboard of that id
WriteCalls ==
    {call \in DbCalls : /\ call.op \in {"save", "update", "delete"}
                        /\ call.op = "update" => call.storyboard.id = call.storyboard_id}

IdleTask ==
    [op |-> "none", storyboard_id |-> "", storyboard |-> NoValue, pc |-> "idle",
     data |-> EmptyObject, returned |-> <<>>]

\* the files a server starts with: some of the ids stored
InitialFiles ==
    {<<[id \in S |-> StoryboardDict([id |-> id, title |-> "Opening", created_at |-> 0,
                                     updated_at |-> 0])]>> : S \in SUBSET StoryboardIds}

DbIdle ==
    /\ db_file = <<EmptyObject>>
    /\ db_task = <<>>
    /\ db_history = <<>>

\* _ensure_data_dir has written {} to a new storyboards.json
InitDb ==
    /\ db_file = <<EmptyObject>>
    /\ db_task = [t \in DbTasks |-> IdleTask]
    /\ db_history = <<>>

\* a server whose storyboards.json holds earlier storyboards
InitDbConcurrent ==
    /\ db_file \in InitialFiles
    /\ db_task = [t \in DbTasks |-> IdleTask]
    /\ db_history = <<>>

\* task t returns value from its operation
DbReturn(t, task, value) ==
    /\ db_task' = [db_task EXCEPT ![t] = [task EXCEPT !.pc = "done",
                                                       !.returned = value]]
    /\ db_history' = Append(db_history,
                            [op |-> task.op, storyboard_id |-> task.storyboard_id,
                             storyboard |-> task.storyboard, returned |-> value])

\* task t calls an operation of the database; save_storyboard begins with
\* its _load_data, the others with theirs
DbCall(t, call) ==
    /\ db_task[t].pc \in {"idle", "done"}
    /\ Len(db_history) < MaxDbOps
    /\ db_task' = [db_task EXCEPT ![t] =
                      [op |-> call.op, storyboard_id |-> call.storyboard_id,
                       storyboard |-> call.storyboard,
                       pc |-> IF call.op = "save" THEN "save_load" ELSE "load",
                       data |-> EmptyObject, returned |-> <<>>]]
    /\ UNCHANGED <<db_file, db_history>>
    /\ UNCHANGED <<clientVars, selectVars, graphVars, probeVars, promptVars>>
    /\ UNCHANGED <<pricingVars, editorVars>>

\* `data = await self._load_data()` of get_storyboard, update_storyboard and
\* delete_storyboard, and what follows it up to the next await
DbLoad(t) ==
    LET task == db_task[t]
        data == LoadData(db_file)
    IN /\ task.pc = "load"
       /\ CASE task.op = "get" ->
                 DbReturn(t, task, IF task.storyboard_id \in DOMAIN data
                                   THEN <<StoryboardOf(data[task.storyboard_id])>>
                                   ELSE <<>>)
            [] task.op = "update" ->
                 IF task.storyboard_id \notin DOMAIN data
                 THEN DbReturn(t, task, <<>>)
                 ELSE /\ db_task' = [db_task EXCEPT ![t] =
                            [task EXCEPT !.pc = "save_load",
                                         !.storyboard =
                                             [@ EXCEPT !.updated_at = 1]]]
                      /\ UNCHANGED db_history
            [] task.op = "delete" ->
                 IF task.storyboard_id \notin DOMAIN data
                 THEN DbReturn(t, task, <<FALSE>>)
                 ELSE /\ db_task' = [db_task EXCEPT ![t] =
                            [task EXCEPT !.pc = "open",
                                         !.data = DeleteKey(data, task.storyboard_id)]]
                      /\ UNCHANGED db_history
       /\ UNCHANGED db_file
       /\ UNCHANGED <<clientVars, selectVars, graphVars, probeVars, promptVars>>
       /\ UNCHANGED <<pricingVars, editorVars>>

\* save_storyboard up to its _save_data: _load_data and
\* data[storyboard.id] = storyboard_dict
DbSaveLoad(t) ==
    LET task == db_task[t]
        data == LoadData(db_file)
    IN /\ task.pc = "save_load"
       /\ db_task' = [db_task EXCEPT ![t] =
             [task EXCEPT !.pc = "open",
                          !.data = (task.storyboard.id :> StoryboardDict(task.storyboard))
                                   @@ data]]
       /\ UNCHANGED <<db_file, db_history>>
       /\ UNCHANGED <<clientVars, selectVars, graphVars, probeVars, promptVars>>
       /\ UNCHANGED <<pricingVars, editorVars>>

\* _save_data: aiofiles.open(file, 'w') empties the file
DbOpen(t) ==
    /\ db_task[t].pc = "open"
    /\ db_file' = <<>>
    /\ db_task' = [db_task EXCEPT ![t] = [@ EXCEPT !.pc = "write"]]
    /\ UNCHANGED db_history
    /\ UNCHANGED <<clientVars, selectVars, graphVars, probeVars, promptVars>>
    /\ UNCHANGED <<pricingVars, editorVars>>

\* _save_data: f.write(json.dumps(data)), and the operation returns
DbWrite(t) ==
    LET task == db_task[t]
    IN /\ task.pc = "write"
       /\ db_file' = <<task.data>>
       /\ DbReturn(t, task, IF task.op = "delete" THEN <<TRUE>>
                            ELSE <<task.storyboard>>)
       /\ UNCHANGED <<clientVars, selectVars, graphVars, probeVars, promptVars>>
       /\ UNCHANGED <<pricingVars, editorVars>>

\* one caller awaits one operation after the other (test_database)
NextDb ==
    \/ \E call \in DbCalls : DbCall(1, call)
    \/ DbLoad(1)
    \/ DbSaveLoad(1)
    \/ DbOpen(1)
    \/ DbWrite(1)

\* two requests of the API, each a writing operation, run as tasks of the
\* event loop, which switches between them at their awaits
NextDbConcurrent ==
    \/ \E t \in DbTasks, call \in WriteCalls : db_task[t].pc = "idle" /\ DbCall(t, call)
    \/ \E t \in DbTasks : DbLoad(t)
    \/ \E t \in DbTasks : DbSaveLoad(t)
    \/ \E t \in DbTasks : DbOpen(t)
    \/ \E t \in DbTasks : DbWrite(t)

(***************************************************************************)
(* IterativeWorkflow.                                                      *)
(***************************************************************************)
EditorIdle ==
    /\ workflow_nodes = EmptyObject
    /\ workflow_connections = <<>>
    /\ selected_node = <<>>

\* the first eight characters of a uuid4: two nodes may get the same id
NodeIds == {"1f0c9a2e", "7b3d5e10", "c4a8f6b2"}

NodeTypes == {"sketch", "combine"}

\* __init__ on a fresh session
InitEditor == EditorIdle

WorkflowNode(node_id, node_type, count) ==
    [id |-> node_id, node_type |-> node_type,
     position |-> [x |-> count * 150, y |-> 100], status |-> "pending"]

\* _add_node: the new node is stored under its id and selected
AddNode(node_type, node_id) ==
    /\ workflow_nodes' =
           [n \in DOMAIN workflow_nodes \cup {node_id} |->
               IF n = node_id
               THEN WorkflowNode(node_id, node_type, Cardinality(DOMAIN workflow_nodes))
               ELSE workflow_nodes[n]]
    /\ selected_node' = <<node_id>>
    /\ UNCHANGED workflow_connections
    /\ UNCHANGED <<clientVars, selectVars, graphVars, probeVars, promptVars>>
    /\ UNCHANGED <<pricingVars, dbVars>>

\* the button of a node in the node list
SelectNode(node_id) ==
    /\ node_id \in DOMAIN workflow_nodes
    /\ selected_node' = <<node_id>>
    /\ UNCHANGED <<workflow_nodes, workflow_connections>>
    /\ UNCHANGED <<clientVars, selectVars, graphVars, probeVars, promptVars>>
    /\ UNCHANGED <<pricingVars, dbVars>>

\* _show_connection_dialog for the selected node with "Create Connection"
\* pressed: the target is one of the other nodes
CreateConnection(target_node) ==
    /\ selected_node # <<>>
    /\ Len(workflow_connections) < MaxConnections
    /\ LET node_id == selected_node[1]
           other_nodes == DOMAIN workflow_nodes \ {node_id}
       IN /\ other_nodes # {}
          /\ target_node \in other_nodes
          /\ workflow_connections' =
                 Append(workflow_connections, [from |-> node_id, to |-> target_node])
    /\ UNCHANGED <<workflow_nodes, selected_node>>
    /\ UNCHANGED <<clientVars, selectVars, graphVars, probeVars, promptVars>>
    /\ UNCHANGED <<pricingVars, dbVars>>

KeepConnectionsFromOthers(connections, node_id) ==
    LET Keeps(conn) == conn.from # node_id
    IN SelectSeq(connections, Keeps)

\* the connections _delete_node keeps
KeepConnections(connections, node_id) ==
    LET Keeps(conn) == conn.from # node_id /\ conn.to # node_id
    IN SelectSeq(connections, Keeps)

\* _delete_node for the selected node
DeleteNode ==
    /\ selected_node # <<>>
    /\ LET node_id == selected_node[1]
       IN /\ workflow_nodes' =
                 [n \in DOMAIN workflow_nodes \ {node_id} |-> workflow_nodes[n]]
          /\ workflow_connections' = KeepConnections(workflow_connections, node_id)
    /\ selected_node' = <<>>
    /\ UNCHANGED <<clientVars, selectVars, graphVars, probeVars, promptVars>>
    /\ UNCHANGED <<pricingVars, dbVars>>

NextEditor ==
    \/ \E node_type \in NodeTypes, node_id \in NodeIds : AddNode(node_type, node_id)
    \/ \E node_id \in NodeIds : SelectNode(node_id)
    \/ \E target_node \in NodeIds : CreateConnection(target_node)
    \/ DeleteNode

(***************************************************************************)
(* Cancellation.  The caller cancels the task that awaits generate_scene;   *)
(* asyncio raises CancelledError in the task at the await it is suspended  *)
(* on: the sleep of the polling loop, ComfyUIClient's GET as well.          *)
(***************************************************************************)
\* a faulty variant of SubmitExcept: a bare `except:`, which catches every
\* exception class
SubmitExceptBare(b, exc) ==
    [caught |-> TRUE, value |-> SubmitFallback(b, exc)]

\* the `except Exception as e` of _submit_workflow, for an exception of class
\* exc raised inside its try; CancelledError derives from BaseException
SubmitExcept(b, exc) ==
    IF exc \in CaughtByExceptException
    THEN [caught |-> TRUE, value |-> SubmitFallback(b, exc)]
    ELSE [caught |-> FALSE]

\* the task of call c is cancelled after its POST was answered
Cancel(c) ==
    /\ status[c] \in {"QUEUED", "POLLING"}
    /\ cancelled' = cancelled \cup {c}
    /\ LET handled == SubmitExcept(backend[c], "CancelledError")
       IN IF handled.caught
          THEN /\ status' = [status EXCEPT ![c] = "FAILED"]
               /\ Finish(c, Returned(handled.value))
          ELSE /\ status' = [status EXCEPT ![c] = "CANCELLED"]
               /\ UNCHANGED <<result, final>>
    /\ UNCHANGED <<backend, prompt_id, attempt, lastPoll, polled, posts, jobs,
                   nextId>>
    /\ UNCHANGED <<selectVars, graphVars, probeVars, promptVars, appVars>>

CallStep(c) ==
    \/ PostPrompt(c)
    \/ EnterPolling(c)
    \/ PollHistory(c)

Init ==
    InitClient /\ SelectIdle /\ GraphIdle /\ ProbeIdle /\ PromptIdle
    /\ PricingIdle /\ DbIdle /\ EditorIdle

Next ==
    \/ \E c \in Calls, b \in Backends : GenerateScene(c, b)
    \/ \E c \in Calls : PostPrompt(c)
    \/ \E c \in Calls : EnterPolling(c)
    \/ \E c \in Calls : PollHistory(c)
    \/ \E id \in 1..NumCalls : ServiceFinish(id)

Spec == Init /\ [][Next]_vars

\* _select_model as a function of the pod's answer and its arguments
NextSelect == SelectModelCall

SelectInit ==
    InitClient /\ InitSelect /\ GraphIdle /\ ProbeIdle /\ PromptIdle
    /\ PricingIdle /\ DbIdle /\ EditorIdle

SpecSelect == SelectInit /\ [][NextSelect]_vars

\* the graph builders as functions of the request
GraphInit ==
    InitClient /\ SelectIdle /\ InitGraph /\ ProbeIdle /\ PromptIdle
    /\ PricingIdle /\ DbIdle /\ EditorIdle

SpecGraph == GraphInit /\ [][NextGraph]_vars

\* the health checks of a caller, one after the other
ProbeInit ==
    InitClient /\ SelectIdle /\ GraphIdle /\ ProbeIdle /\ PromptIdle
    /\ PricingIdle /\ DbIdle /\ EditorIdle

SpecProbe == ProbeInit /\ [][NextProbe]_vars

\* the prompt builders as functions of their arguments
PromptInit ==
    InitClient /\ SelectIdle /\ GraphIdle /\ ProbeIdle /\ InitPrompt
    /\ PricingIdle /\ DbIdle /\ EditorIdle

SpecPrompt == PromptInit /\ [][NextPrompt]_vars

\* call 1, which its caller may cancel, next to call 2, which runs to its
\* end, and the remote service
NextCancel ==
    \/ \E c \in {1, 2}, b \in Backends : GenerateScene(c, b)
    \/ \E c \in {1, 2} : CallStep(c)
    \/ \E id \in {1, 2} : ServiceFinish(id)
    \/ Cancel(1)

SpecCancel == Init /\ [][NextCancel]_vars

\* the deduct_credits calls of a session
PricingInit ==
    InitClient /\ SelectIdle /\ GraphIdle /\ ProbeIdle /\ PromptIdle
    /\ InitPricing /\ DbIdle /\ EditorIdle

SpecPricing == PricingInit /\ [][NextPricing]_vars

\* the storyboard database under one caller
DbInit ==
    InitClient /\ SelectIdle /\ GraphIdle /\ ProbeIdle /\ PromptIdle
    /\ PricingIdle /\ InitDb /\ EditorIdle

SpecDb == DbInit /\ [][NextDb]_vars

\* the storyboard database under two concurrent requests
DbConcurrentInit ==
    InitClient /\ SelectIdle /\ GraphIdle /\ ProbeIdle /\ PromptIdle
    /\ PricingIdle /\ InitDbConcurrent /\ EditorIdle

SpecDbConcurrent == DbConcurrentInit /\ [][NextDbConcurrent]_vars

\* the workflow editor of a session
EditorInit ==
    InitClient /\ SelectIdle /\ GraphIdle /\ ProbeIdle /\ PromptIdle
    /\ PricingIdle /\ DbIdle /\ InitEditor

SpecEditor == EditorInit /\ [][NextEditor]_vars

\* asyncio resumes every task whose sleep or request is over, and every
\* request of the clients ends (RunPod's carry a timeout)
FairSpec == Spec /\ \A c \in Calls : WF_vars(CallStep(c))

(***************************************************************************)
(* Properties of the remote execution clients.                             *)
(***************************************************************************)
HasError(r) == "error" \in DOMAIN r /\ r.error # ""

LocalState(c) == <<backend[c], status[c], prompt_id[c], attempt[c], lastPoll[c],
                   polled[c], posts[c], result[c], final[c]>>

\* the artifact reference the service's file of job id stands for
ArtifactOf(b, id) ==
    IF b = "runpod"
    THEN <<"https://pod", "/view?filename=", <<"action_", id, "_.png">>, "&type=output">>
    ELSE <<"/static/output/", <<"action_", id, "_.png">>>>

\* C1: every result handed to the caller of generate_scene carries a real
\* artifact reference, or the placeholder together with a non-empty error
\* description.
C1_PlaceholderCarriesError ==
    \A c \in Calls :
        status[c] \in Terminal =>
            \/ final[c].image_url # Placeholder
            \/ HasError(final[c])

\* C2: the states of a call follow SUBMITTING -> QUEUED -> POLLING -> terminal,
\* and every call that started eventually reaches a terminal state.
C2_EveryCallTerminates ==
    /\ [][\A c \in Calls :
            status'[c] # status[c] =>
                <<status[c], status'[c]>> \in
                    ({<<"IDLE", "SUBMITTING">>, <<"SUBMITTING", "QUEUED">>,
                      <<"SUBMITTING", "FAILED">>, <<"QUEUED", "POLLING">>}
                     \cup ({"POLLING"} \X Terminal))]_vars
    /\ \A c \in Calls : (status[c] = "SUBMITTING") ~> (status[c] \in Terminal)

\* C3: a call that timed out hands its caller the placeholder artifact and a
\* non-empty error string.
C3_TimeoutReportsError ==
    \A c \in Calls :
        status[c] = "TIMED_OUT" =>
            /\ final[c].image_url = Placeholder
            /\ HasError(final[c])

\* C4: a call whose POST /prompt failed sent one POST, never polled /history,
\* and hands its caller a result with a populated error.
C4_SubmissionFailureReported ==
    \A c \in Calls :
        (status[c] = "FAILED" /\ prompt_id[c] = NoId) =>
            /\ posts[c] = 1
            /\ polled[c] = {}
            /\ HasError(final[c])

\* C5: after a poll that ended in a transport error the call is still polling;
\* only the cap on the polling loop may have ended it.
C5_PollErrorIsTransient ==
    \A c \in Calls :
        lastPoll[c] = "transport_error" => status[c] \in {"POLLING", "TIMED_OUT"}

\* C6: a call is COMPLETED exactly when its last poll answered with the job's
\* outputs under the save node (so no earlier poll did and was ignored, and no
\* other answer completes it), and its artifact reference is built from the
\* file name in those outputs.
C6_CompletedAtFirstOutputs ==
    \A c \in Calls :
        /\ status[c] = "COMPLETED" <=> lastPoll[c] = "done"
        /\ status[c] = "COMPLETED" =>
              /\ result[c].value.image_url = ArtifactOf(backend[c], prompt_id[c])
              /\ final[c].image_url = ArtifactOf(backend[c], prompt_id[c])

\* C6: a RunPod call completed by its third poll, after two that did not
C6_Witness ==
    \E c \in Calls :
        /\ backend[c] = "runpod"
        /\ status[c] = "COMPLETED"
        /\ attempt[c] = 3

C7_OwnJob ==
    \A c \in Calls :
        /\ polled[c] \subseteq {prompt_id[c]} \ {NoId}
        /\ \A d \in Calls \ {c} : prompt_id[c] # NoId => prompt_id[c] # prompt_id[d]
        /\ status[c] = "COMPLETED" =>
              /\ jobs[prompt_id[c]] = "done"
              /\ final[c].image_url = ArtifactOf(backend[c], prompt_id[c])

AnsweredSuccessfully(answer) ==
    answer.exc = "none" /\ answer.status_code \in 200..299

\* C12: no health check raises; one that returned true was answered with a
\* 2xx status, and every one answered with another status or ended by a
\* transport error returned false.
C12_HealthCheckNeverThrows ==
    \A i \in 1..Len(probes) :
        /\ ~probes[i].out.raised
        /\ probes[i].out.value = TRUE => AnsweredSuccessfully(probes[i].answer)
        /\ ~AnsweredSuccessfully(probes[i].answer) => probes[i].out.value = FALSE

\* C12: one health check ended by a transport error and one answered 503,
\* on different clients, and one answered 200 is reachable too
C12_Witness ==
    /\ Len(probes) = 2
    /\ probes[1].answer.exc # "none" /\ probes[1].out.value = FALSE
    /\ probes[2].answer.status_code = 503 /\ probes[2].out.value = FALSE
    /\ probes[1].backend # probes[2].backend

(***************************************************************************)
(* Properties of the model selection.                                      *)
(***************************************************************************)
\* the positions of the catalog whose model contains word, case-insensitively
Hits(word, cat) == {i \in 1..Len(cat) : Contains(Lower(word), Lower(cat[i]))}

Least(S) == CHOOSE i \in S : \A j \in S : i <= j

PreferredGiven == preferred_wan # <<>> /\ preferred_wan[1] # <<>>

\* the preference keywords of the scene type that hit some available model
KeywordsHit ==
    {j \in 1..Len(ScenePreferences(scene_type)) :
        Hits(ScenePreferences(scene_type)[j], available_models) # {}}

\* C9: the rules apply in strict priority order: (a) the first available model
\* containing the given preferred name, else (b) the first available model of
\* the WAN family, else (c) the first available model matching the earliest
\* matching preference keyword of the scene type, else (d) the first available
\* model.
C9_PriorityOrder ==
    (select_pc = "done" /\ available_models # <<>>) =>
        LET byPreferred == IF PreferredGiven
                           THEN Hits(preferred_wan[1], available_models) ELSE {}
            byFamily == Hits(<<"w", "a", "n">>, available_models)
        IN IF byPreferred # {}
           THEN model_name = available_models[Least(byPreferred)]
           ELSE IF byFamily # {}
                THEN model_name = available_models[Least(byFamily)]
                ELSE IF KeywordsHit # {}
                     THEN model_name = available_models[Least(
                              Hits(ScenePreferences(scene_type)[Least(KeywordsHit)],
                                   available_models))]
                     ELSE model_name = available_models[1]

\* C9: the preferred model was found although a WAN model is available too and
\* listed first, and the preferred one is not the scene type's first choice
C9_Witness ==
    /\ select_pc = "done"
    /\ PreferredGiven
    /\ Len(available_models) = 3
    /\ available_models[1] = WanModel
    /\ model_name = DreamShaper
    /\ scene_type = "fight_scene"
    /\ EpicRealism = available_models[2]

\* C10: whatever _select_model returns is a member of the available catalog;
\* with an empty catalog no name is returned.
C10_SelectedIsAvailable ==
    select_pc = "done" =>
        \E i \in 1..Len(available_models) : available_models[i] = model_name

\* the models a catalog lists, as a set
ModelsOf(cat) == {cat[i] : i \in 1..Len(cat)}

\* no model was asked for, no available model is of the WAN family, and some
\* preference keyword of the scene type hits an available model
TableDecides ==
    /\ select_pc = "done"
    /\ ~PreferredGiven
    /\ Hits(<<"w", "a", "n">>, available_models) = {}
    /\ KeywordsHit # {}

EarliestKeyword == ScenePreferences(scene_type)[Least(KeywordsHit)]

\* C11 as stated: when the preference table decides, the result is an
\* available model containing the earliest keyword that hits any available
\* model, and every catalog listing the same models in another order gives
\* the same result; {epicrealismXL_v10, dreamshaper_8} with fight_scene gives
\* epicrealismXL_v10.
C11_TableHitAnyOrder ==
    TableDecides =>
        /\ model_name \in ModelsOf(available_models)
        /\ Contains(EarliestKeyword, Lower(model_name))
        /\ \A cat \in Catalogs :
               ModelsOf(cat) = ModelsOf(available_models) =>
                   SelectModel(cat, preferred_wan, scene_type) = model_name
        /\ (ModelsOf(available_models) = {EpicRealism, DreamShaper}
               /\ scene_type = "fight_scene") => model_name = EpicRealism

\* C11 as amended: when the preference table decides, the result is the first
\* model in catalog order among the available models containing the earliest
\* keyword that hits any available model; when one available model only
\* contains that keyword the result is that model, whatever the catalog's
\* order; {epicrealismXL_v10, dreamshaper_8} with fight_scene gives
\* epicrealismXL_v10.
C11_TableHitCatalogOrder ==
    TableDecides =>
        LET hits == Hits(EarliestKeyword, available_models)
        IN /\ model_name = available_models[Least(hits)]
           /\ Cardinality(hits) = 1 =>
                  \A m \in ModelsOf(available_models) :
                      Contains(EarliestKeyword, Lower(m)) => model_name = m
           /\ (ModelsOf(available_models) = {EpicRealism, DreamShaper}
                  /\ scene_type = "fight_scene") => model_name = EpicRealism

\* C11: the catalog lists dreamshaper_8 before epicrealismXL_v10 and the
\* fight_scene table still returns epicrealismXL_v10
C11_Witness ==
    /\ select_pc = "done"
    /\ ~PreferredGiven
    /\ available_models = <<DreamShaper, EpicRealism>>
    /\ scene_type = "fight_scene"
    /\ model_name = EpicRealism

\* C13: get_available_models returns the empty catalog when GET /object_info
\* is unreachable, answers another status than 2xx or carries no checkpoint
\* enumeration, and returns exactly the enumeration, the first element of the
\* CheckpointLoaderSimple ckpt_name schema, when the payload carries it.
C13_ListModelsFindsEnumeration ==
    select_pc = "done" =>
        /\ (object_info.http # "ok" \/ object_info.shape = "no_loader")
              => available_models = <<>>
        /\ (object_info.http = "ok"
              /\ object_info.shape \in {"flat", "single", "required"})
              => available_models = object_info.names

(***************************************************************************)
(* Properties of the workflow graphs.                                      *)
(***************************************************************************)
\* the links of a graph as pairs <<producer node id, consumer node id>>
Links(wf) ==
    UNION {{<<wf[n].inputs[i][1], n>> : i \in DOMAIN wf[n].inputs} : n \in DOMAIN wf}

LinksResolve(wf) == \A e \in Links(wf) : e[1] \in DOMAIN wf

\* nodes that consume nothing inside `nodes` are removed until none is left
RECURSIVE Peels(_, _)
Peels(nodes, links) ==
    LET free == {n \in nodes : \A e \in links : e[2] = n => e[1] \notin nodes}
    IN IF nodes = {} THEN TRUE
       ELSE IF free = {} THEN FALSE
       ELSE Peels(nodes \ free, links)

Acyclic(wf) == Peels(DOMAIN wf, Links(wf))

\* C8: every built graph is acyclic and every link of every node names a node
\* of the same graph.
C8_GraphWellFormed ==
    build_pc = "done" => (Acyclic(workflow) /\ LinksResolve(workflow))

\* the ControlNet attachments a builder applies, in list order
Attachments(req) ==
    IF req.builder = "template" /\ req.workflow_type = "controlnet_multi"
    THEN req.controlnets
    ELSE IF IsSet(req.controlnet) /\ req.controlnet[1].enabled
         THEN <<req.controlnet[1]>>
         ELSE <<>>

\* link is the output of the apply node of attachment k, whose loader loads
\* that attachment's ControlNet and whose conditioning is the output of the
\* apply node of attachment k - 1; before the first one comes the positive
\* text encoder, node "1"
RECURSIVE ChainedFrom(_, _, _, _)
ChainedFrom(wf, link, attachments, k) ==
    IF k = 0
    THEN link = <<"1", 0>>
    ELSE /\ link[1] \in DOMAIN wf
         /\ link[2] = 0
         /\ wf[link[1]].class_type = "ControlNetApply"
         /\ wf[link[1]].inputs.control_net[1] \in DOMAIN wf
         /\ wf[wf[link[1]].inputs.control_net[1]].params.control_net_name
               = ControlNetName(attachments[k].type)
         /\ ChainedFrom(wf, wf[link[1]].inputs.conditioning, attachments, k - 1)

\* C14: with ControlNet attachments the sampler's positive input is no longer
\* the positive text encoder but the last apply node; the apply nodes, one
\* per attachment, chain in list order back to the text encoder.
C14_SamplerFollowsControlnetChain ==
    (build_pc = "done" /\ Attachments(request) # <<>>) =>
        /\ workflow["3"].inputs.positive # <<"1", 0>>
        /\ ChainedFrom(workflow, workflow["3"].inputs.positive,
                       Attachments(request), Len(Attachments(request)))
        /\ Cardinality({n \in DOMAIN workflow :
                           workflow[n].class_type = "ControlNetApply"})
              = Len(Attachments(request))

\* C14: a template graph with a canny attachment after an openpose one
C14_Witness ==
    /\ build_pc = "done"
    /\ request.builder = "template"
    /\ Len(request.controlnets) = 2
    /\ request.controlnets[1].type = "openpose"
    /\ request.controlnets[2].type = "canny"
    /\ workflow["3"].inputs.positive = <<"17", 0>>
    /\ workflow["17"].inputs.conditioning = <<"13", 0>>

\* a builder that fails returns no graph
NoGraph == DOMAIN workflow = {}

ValidDimension(n) == n > 0 /\ n % 64 = 0

\* C15: a request whose width or height is not a positive multiple of 64
\* (width = 700) is rejected: no graph is built for it.
C15_InvalidDimensionsRejected ==
    (build_pc = "done"
        /\ (~ValidDimension(request.width) \/ ~ValidDimension(request.height)))
        => NoGraph

\* the types of the type-to-preprocessor table
TableTypes == {"openpose", "canny", "depth", "lineart", "normal", "seg"}

TablePreprocessor(type) ==
    CASE type = "openpose" -> "OpenposePreprocessor"
      [] type = "canny" -> "CannyEdgePreprocessor"
      [] type = "depth" -> "MiDaS-DepthMapPreprocessor"
      [] type = "lineart" -> "LineArtPreprocessor"
      [] type = "normal" -> "BAE-NormalMapPreprocessor"
      [] type = "seg" -> "SemSegPreprocessor"

\* C16: a request with a ControlNet attachment whose type the table does not
\* have is rejected: no graph is built for it; and every graph built has, for
\* each attachment, a preprocessor node of the class the table gives its type.
C16_UnsupportedTypeRejected ==
    build_pc = "done" =>
        \A k \in 1..Len(Attachments(request)) :
            LET type == Attachments(request)[k].type
            IN IF type \notin TableTypes
               THEN NoGraph
               ELSE \E n \in DOMAIN workflow :
                       workflow[n].class_type = TablePreprocessor(type)

\* C17: the sampler of a graph built for a request with a seed (0 included)
\* carries that seed; the builders draw no random number, so for a request
\* without a seed any seed in the graph is a fixed default, and there is none.
C17_SeedIsTheCallers ==
    (build_pc = "done" /\ ~NoGraph) =>
        \A n \in DOMAIN workflow :
            workflow[n].class_type \in {"KSampler", "VideoKSampler"} =>
                IF IsSet(request.seed)
                THEN workflow[n].params.seed = request.seed[1]
                ELSE "seed" \notin DOMAIN workflow[n].params

(***************************************************************************)
(* Properties of the prompt builders.                                      *)
(***************************************************************************)
\* the first n elements of a list, or all of them if it has fewer
FirstN(list, n) == [i \in 1..(IF Len(list) < n THEN Len(list) ELSE n) |-> list[i]]

\* the first n phrases the table has for key, none if it has no such key
Phrases(table, key, n) ==
    IF key \in DOMAIN table THEN FirstN(table[key], n) ELSE <<>>

Built_sp == prompt_args.scene_params

FeaturingClause ==
    IF Built_sp.characters = <<>> THEN <<>>
    ELSE <<"featuring " \o Join(", ", FirstN(Built_sp.characters, 2))>>

WithClause ==
    IF Built_sp.props = <<>> THEN <<>>
    ELSE <<"with " \o Join(", ", FirstN(Built_sp.props, 3))>>

SetInClause ==
    IF Built_sp.setting = "" THEN <<>> ELSE <<"set in " \o Built_sp.setting>>

BlurPhrases ==
    IF Built_sp.motion_blur THEN <<"motion blur", "speed effect">> ELSE <<>>

PromptBuilt == enhanced_prompt # <<>> /\ prompt_args.caller = "builder"

\* C18 as stated: the prompt is, joined with ", ": the base prompt, at most 3
\* scene-type keywords, at most 2 violence-level phrases, at most 2
\* camera-angle phrases, 'set in {setting}' if there is a setting, at most 2
\* lighting phrases if the lighting key is recognized and otherwise the raw
\* lighting string, the motion-blur phrases, the 'featuring' clause of at most
\* 2 characters, the 'with' clause of at most 3 props, 4 quality phrases and
\* 3 action phrases, and nothing else in between.
C18_OrderAsStated ==
    PromptBuilt =>
        enhanced_prompt[1] =
            Join(", ",
                 <<prompt_args.base_prompt>>
                 \o Phrases(scene_keywords, Built_sp.scene_type, 3)
                 \o Phrases(violence_modifiers, Built_sp.violence_level, 2)
                 \o Phrases(camera_modifiers, Built_sp.camera_angle, 2)
                 \o SetInClause
                 \o (IF Built_sp.lighting \in DOMAIN lighting_styles
                     THEN FirstN(lighting_styles[Built_sp.lighting], 2)
                     ELSE IF Built_sp.lighting # "" THEN <<Built_sp.lighting>>
                          ELSE <<>>)
                 \o BlurPhrases
                 \o FeaturingClause
                 \o WithClause
                 \o FirstN(quality_enhancers, 4)
                 \o FirstN(action_enhancers, 3))

\* C18 as amended: as stated, but a lighting string that is not recognized
\* contributes nothing, and between the lighting and the motion-blur phrases
\* come '{time_of_day} time' if the time of day is not "day" and '{weather}
\* weather' if there is a weather.
C18_OrderOfTheCode ==
    PromptBuilt =>
        enhanced_prompt[1] =
            Join(", ",
                 <<prompt_args.base_prompt>>
                 \o Phrases(scene_keywords, Built_sp.scene_type, 3)
                 \o Phrases(violence_modifiers, Built_sp.violence_level, 2)
                 \o Phrases(camera_modifiers, Built_sp.camera_angle, 2)
                 \o SetInClause
                 \o Phrases(lighting_styles, Built_sp.lighting, 2)
                 \o (IF Built_sp.time_of_day = "day" THEN <<>>
                     ELSE <<Built_sp.time_of_day \o " time">>)
                 \o (IF Built_sp.weather = "" THEN <<>>
                     ELSE <<Built_sp.weather \o " weather">>)
                 \o BlurPhrases
                 \o FeaturingClause
                 \o WithClause
                 \o FirstN(quality_enhancers, 4)
                 \o FirstN(action_enhancers, 3))

\* C18: a prompt built with every component present and every cap exceeded
C18_Witness ==
    /\ PromptBuilt
    /\ Built_sp.scene_type = "fight_scene"
    /\ Built_sp.camera_angle = "low_angle"
    /\ Built_sp.setting # "" /\ Built_sp.lighting = "dramatic"
    /\ Built_sp.time_of_day = "night" /\ Built_sp.weather # ""
    /\ Built_sp.motion_blur
    /\ Len(Built_sp.characters) = 3 /\ Len(Built_sp.props) = 4

StartsWith(s, prefix) ==
    Len(prefix) <= Len(s) /\ SubSeq(s, 1, Len(prefix)) = prefix

\* C19 as stated: whoever builds it and whatever the scene type and the
\* optional fields are, the enhanced prompt starts with the caller's base
\* prompt, unchanged.
C19_BasePromptIsPrefix ==
    enhanced_prompt # <<>> => StartsWith(enhanced_prompt[1], prompt_args.base_prompt)

\* C19 as amended: the prompt build_action_prompt returns starts with the base
\* prompt unchanged; the prompt ReplicateClient._build_safe_prompt returns
\* starts with the base prompt in which the unsafe terms are replaced by
\* their safe terms, so with the base prompt unchanged when it has none.
C19_BasePromptKeptOrMadeSafe ==
    enhanced_prompt # <<>> =>
        IF prompt_args.caller = "builder"
        THEN StartsWith(enhanced_prompt[1], prompt_args.base_prompt)
        ELSE /\ StartsWith(enhanced_prompt[1], ReplaceAll(prompt_args.base_prompt, 1))
             /\ (\A k \in 1..Len(safe_replacements) :
                    Replace(prompt_args.base_prompt, safe_replacements[k][1], "")
                        = prompt_args.base_prompt)
                  => StartsWith(enhanced_prompt[1], prompt_args.base_prompt)

\* C19: ReplicateClient built the prompt of "intense fight scene" with every
\* optional field empty
C19_Witness ==
    /\ enhanced_prompt # <<>>
    /\ prompt_args.caller = "replicate"
    /\ prompt_args.base_prompt = "intense fight scene"
    /\ Built_sp.setting = "" /\ Built_sp.lighting = "" /\ Built_sp.weather = ""
    /\ Built_sp.characters = <<>> /\ Built_sp.props = <<>>
    /\ StartsWith(enhanced_prompt[1], "intense action choreography scene, ")

(***************************************************************************)
(* Determinism of the graph builders.                                      *)
(***************************************************************************)
BuiltTwice == build_pc = "done" /\ previous # NoValue

\* the two graphs have the same node ids, the same class_type per node and
\* the same link per input
SameStructure(a, b) ==
    /\ DOMAIN a = DOMAIN b
    /\ \A n \in DOMAIN a :
          /\ a[n].class_type = b[n].class_type
          /\ a[n].inputs = b[n].inputs
          /\ DOMAIN a[n].params = DOMAIN b[n].params

\* C20 as stated: two builds of the same request return graphs with the same
\* node ids, class types and links, and with the same literals: the request,
\* its seed included, is the same, so nothing differs.
C20_BuildsAreIdentical ==
    BuiltTwice =>
        /\ SameStructure(previous, workflow)
        /\ \A n \in DOMAIN workflow : previous[n].params = workflow[n].params

\* C20 as amended: two builds of the same request return graphs with the same
\* node ids, class types and links, and with the same literals except the
\* filename_prefix of the SaveImage node of RunPodClient's graph, which holds
\* the second the build ran in.
C20_BuildsDifferInTimestampOnly ==
    BuiltTwice =>
        /\ SameStructure(previous, workflow)
        /\ \A n \in DOMAIN workflow : \A k \in DOMAIN workflow[n].params :
              previous[n].params[k] # workflow[n].params[k]
                  => (request.builder = "runpod" /\ n = "9" /\ k = "filename_prefix")

\* C20: RunPodClient built the graph of a request without a seed and with a
\* ControlNet twice, in different seconds
C20_Witness ==
    /\ BuiltTwice
    /\ request.builder = "runpod"
    /\ ~IsSet(request.seed)
    /\ Attachments(request) # <<>>
    /\ previous["9"].params.filename_prefix # workflow["9"].params.filename_prefix


(***************************************************************************)
(* Terminal nodes, LoRA chains, clip skip and sampler presets.             *)
(***************************************************************************)
SaveNodes(wf) == {n \in DOMAIN wf : wf[n].class_type \in {"SaveImage", "SaveVideo"}}

\* no node of the graph consumes an output of n
Terminal_node(wf, n) == \A e \in Links(wf) : e[1] # n

\* C21: every graph a builder returns, for every workflow type and every
\* combination of attachments, has exactly one node of class SaveImage or
\* SaveVideo, and that node is terminal: no node consumes its output.
C21_ExactlyOneSaveNode ==
    build_pc = "done" =>
        /\ Cardinality(SaveNodes(workflow)) = 1
        /\ \A n \in SaveNodes(workflow) : Terminal_node(workflow, n)


\* node id is the loader of the k-th LoRA: it loads that LoRA and takes model
\* and clip from the loader of the one before, the first from the checkpoint
\* loader, node "4"
RECURSIVE LoraChainEnds(_, _, _, _)
LoraChainEnds(wf, id, loras, k) ==
    /\ id \in DOMAIN wf
    /\ wf[id].class_type = "LoraLoader"
    /\ wf[id].params.lora_name = loras[k]
    /\ wf[id].inputs.clip = <<wf[id].inputs.model[1], 1>>
    /\ IF k = 1
       THEN wf[id].inputs.model = <<"4", 0>>
       ELSE /\ wf[id].inputs.model[2] = 0
            /\ wf[id].inputs.model[1] # id
            /\ LoraChainEnds(wf, wf[id].inputs.model[1], loras, k - 1)

\* C22: a ComfyUI graph built with LoRAs has one loader per LoRA, chained in
\* list order from the checkpoint loader; both text encoders take their clip
\* and the sampler its model from the last loader; and the sampler's positive
\* input still is the ControlNet apply node when a ControlNet is attached.
C22_LoraChain ==
    (build_pc = "done" /\ request.builder = "comfyui" /\ request.lora_models # <<>>) =>
        LET last == workflow["3"].inputs.model[1]
        IN /\ workflow["3"].inputs.model = <<last, 0>>
           /\ LoraChainEnds(workflow, last, request.lora_models,
                            Len(request.lora_models))
           /\ Cardinality({n \in DOMAIN workflow :
                              workflow[n].class_type = "LoraLoader"})
                 = Len(request.lora_models)
           /\ workflow["1"].inputs.clip = <<last, 1>>
           /\ workflow["2"].inputs.clip = <<last, 1>>
           /\ Attachments(request) # <<>> =>
                 /\ workflow["3"].inputs.positive # <<"1", 0>>
                 /\ workflow[workflow["3"].inputs.positive[1]].class_type
                       = "ControlNetApply"

\* C22: a ComfyUI graph with a ControlNet and two different LoRAs
C22_Witness ==
    /\ build_pc = "done"
    /\ request.builder = "comfyui"
    /\ request.lora_models = <<"style_lora", "hero_lora">>
    /\ Attachments(request) # <<>>
    /\ workflow["3"].inputs.model = <<"21", 0>>
    /\ workflow["21"].inputs.model = <<"20", 0>>
    /\ workflow["3"].inputs.positive = <<"13", 0>>


\* the optimization preset of the request's model, for the builders that
\* look one up by model name
Preset(req) ==
    IF req.builder = "runpod" THEN WanOptimizations(req.model_name)
    ELSE WanModelConfig(req.model_name)

NodesOfClass(wf, class) == {n \in DOMAIN wf : wf[n].class_type = class}

\* C23: in a graph of RunPodClient or WANModelHandler there is a
\* CLIPSetLastLayer node if and only if the preset of the model has a skip
\* depth above 1; when there is one it takes its clip from the checkpoint
\* loader and both text encoders take their clip from it; when there is none
\* both text encoders take their clip from the checkpoint loader.
C23_ClipSkipNode ==
    (build_pc = "done" /\ request.builder \in {"runpod", "wan_handler"}) =>
        LET skips == NodesOfClass(workflow, "CLIPSetLastLayer")
            loaders == NodesOfClass(workflow, "CheckpointLoaderSimple")
            encoders == NodesOfClass(workflow, "CLIPTextEncode")
        IN /\ (skips # {}) <=> (Preset(request).clip_skip > 1)
           /\ Cardinality(encoders) = 2
           /\ Cardinality(loaders) = 1
           /\ IF skips # {}
              THEN /\ Cardinality(skips) = 1
                   /\ \A s \in skips :
                         /\ workflow[s].inputs.clip[1] \in loaders
                         /\ workflow[s].inputs.clip[2] = 1
                         /\ \A e \in encoders : workflow[e].inputs.clip = <<s, 0>>
              ELSE \A e \in encoders :
                      /\ workflow[e].inputs.clip[1] \in loaders
                      /\ workflow[e].inputs.clip[2] = 1

\* C23: WANModelHandler built the graph of a WAN model, with the
\* CLIPSetLastLayer node between the checkpoint loader and the text encoders
C23_Witness ==
    /\ build_pc = "done"
    /\ request.builder = "wan_handler"
    /\ request.model_name = WanModel
    /\ workflow["10"].class_type = "CLIPSetLastLayer"
    /\ workflow["10"].inputs.clip = <<"4", 1>>
    /\ workflow["1"].inputs.clip = <<"10", 0>>
    /\ workflow["2"].inputs.clip = <<"10", 0>>


\* the models of the request pool that belong to the fast (WAN) family
FastFamily == {WanModel}

\* sampler name, scheduler, step count and cfg of a graph's sampler
SamplerSettings(wf) ==
    <<wf["3"].params.sampler_name, wf["3"].params.scheduler,
      wf["3"].params.steps, wf["3"].params.cfg>>

\* C25: the sampler of a RunPodClient graph carries the fast family's preset
\* (dpmpp_2m_karras, karras, 25 steps, cfg 6.5) when the model is of that
\* family and the generic preset (euler_a, normal, 28 steps, cfg 7.5)
\* otherwise, whatever the request's own steps and cfg; two graphs built for
\* the same model carry the same four settings.
C25_SamplerSettingsFromPreset ==
    (build_pc = "done" /\ request.builder = "runpod") =>
        /\ SamplerSettings(workflow)
              = IF request.model_name \in FastFamily
                THEN <<"dpmpp_2m_karras", "karras", 25, 65>>
                ELSE <<"euler_a", "normal", 28, 75>>
        /\ BuiltTwice => SamplerSettings(previous) = SamplerSettings(workflow)

\* C25: RunPodClient built the graph of a WAN model twice
C25_Witness ==
    /\ BuiltTwice
    /\ request.builder = "runpod"
    /\ request.model_name = WanModel
    /\ request.steps = 30
    /\ SamplerSettings(workflow) = <<"dpmpp_2m_karras", "karras", 25, 65>>


(***************************************************************************)
(* Cancellation of a call.                                                 *)
(***************************************************************************)
\* C24: a call can be cancelled while it polls; once it is cancelled nothing
\* of it changes any more (no GET /history, no POST), the step that cancels
\* it sends the service nothing and leaves the job as it is, and the call has
\* no result: the cancellation is not turned into the placeholder.
C24_CancelStopsPolling ==
    /\ [](\A c \in cancelled : /\ status[c] = "CANCELLED"
                               /\ result[c] = NoValue
                               /\ final[c] = NoValue)
    /\ [][\A c \in cancelled : LocalState(c)' = LocalState(c)]_vars
    /\ [][cancelled' # cancelled =>
              (posts' = posts /\ polled' = polled /\ jobs' = jobs)]_vars

\* C24: a call was cancelled after it had polled its job, which the service
\* still has pending
C24_Witness ==
    /\ 1 \in cancelled
    /\ status[1] = "CANCELLED"
    /\ polled[1] = {prompt_id[1]}
    /\ attempt[1] > 0
    /\ jobs[prompt_id[1]] = "pending"


(***************************************************************************)
(* Properties of the credit accounting.                                    *)
(***************************************************************************)
CreditsNeeded(call) ==
    CalculateCreditsNeeded(call.workflow_type, call.resolution, call.batch_size)

\* C26: a deduct_credits call with success = False returns True and leaves
\* the user's credits and the usage history as they were.
C26_FailedGenerationNotCharged ==
    (last_deduct # NoValue /\ ~last_deduct.call.success) =>
        /\ last_deduct.returned = TRUE
        /\ user_credits = last_deduct.credits_before
        /\ usage_history = last_deduct.history_before

\* C26: a failed batch generation of 8 credits was reported by a user who has
\* 22 credits left and one usage record
C26_Witness ==
    /\ last_deduct # NoValue
    /\ ~last_deduct.call.success
    /\ CreditsNeeded(last_deduct.call) = 8
    /\ user_credits = <<22>>
    /\ usage_history # <<>>
    /\ Len(usage_history[1]) = 1


\* the list behind an optional session value
ListOf(opt) == IF opt = <<>> THEN <<>> ELSE opt[1]

\* C28: the balance is never negative; a deduct_credits call for a successful
\* generation the user can afford returns True, lowers the balance by exactly
\* the credits needed and appends one usage record; one the user cannot
\* afford returns False and leaves the balance and the usage history as they
\* were.
C28_BalanceNeverNegative ==
    /\ GetUserCredits(user_credits) >= 0
    /\ (last_deduct # NoValue /\ last_deduct.call.success) =>
          LET before == GetUserCredits(last_deduct.credits_before)
              needed == CreditsNeeded(last_deduct.call)
              old == ListOf(last_deduct.history_before)
              new == ListOf(usage_history)
          IN IF before >= needed
             THEN /\ last_deduct.returned = TRUE
                  /\ GetUserCredits(user_credits) = before - needed
                  /\ Len(new) = Len(old) + 1
                  /\ SubSeq(new, 1, Len(old)) = old
                  /\ new[Len(new)].credits_used = needed
                  /\ new[Len(new)].workflow_type = last_deduct.call.workflow_type
             ELSE /\ last_deduct.returned = FALSE
                  /\ user_credits = last_deduct.credits_before
                  /\ usage_history = last_deduct.history_before

\* C28: after one deduction a user with 4 credits left asked for a
\* generation of 8 credits and was refused
C28_Witness ==
    /\ last_deduct # NoValue
    /\ last_deduct.call.success
    /\ last_deduct.returned = FALSE
    /\ CreditsNeeded(last_deduct.call) = 8
    /\ user_credits = <<4>>
    /\ Len(ListOf(usage_history)) = 1


(***************************************************************************)
(* Properties of the storyboard database.                                  *)
(***************************************************************************)
\* what the operations that returned before position k + 1 left stored under
\* id: <<s>> when the latest of them that wrote id saved s, <<>> when it
\* deleted id or none wrote it
RECURSIVE StoredAfter(_, _, _)
StoredAfter(h, id, k) ==
    IF k = 0 THEN <<>>
    ELSE LET e == h[k]
         IN IF e.op = "save" /\ e.storyboard.id = id
            THEN <<e.storyboard>>
            ELSE IF e.op = "update" /\ e.returned # <<>> /\ e.storyboard.id = id
            THEN <<e.storyboard>>
            ELSE IF e.op = "delete" /\ e.storyboard_id = id /\ e.returned = <<TRUE>>
            THEN <<>>
            ELSE StoredAfter(h, id, k - 1)

\* task t returns in this step
Returns(t) == db_task[t].pc # "done" /\ db_task'[t].pc = "done"

\* C27: under one caller, get_storyboard(id) returns a storyboard with the id
\* and the title of the latest save of that id, and None once the id was
\* deleted or when it was never saved; delete_storyboard returns True exactly
\* for a stored id; delete_storyboard and update_storyboard of an id that is
\* not stored return False / None and leave the file as it is.
C27_SaveGetDelete ==
    /\ [](\A k \in 1..Len(db_history) :
            LET e == db_history[k]
                stored == StoredAfter(db_history, e.storyboard_id, k - 1)
            IN /\ e.op = "get" =>
                     IF stored = <<>> THEN e.returned = <<>>
                     ELSE /\ e.returned # <<>>
                          /\ e.returned[1].id = e.storyboard_id
                          /\ e.returned[1].title = stored[1].title
               /\ e.op = "delete" => e.returned = <<stored # <<>>>>
               /\ (e.op = "update" /\ stored = <<>>) => e.returned = <<>>)
    /\ [][\A t \in DbTasks :
            (/\ Returns(t)
             /\ \/ db_task[t].op = "delete" /\ db_task'[t].returned = <<FALSE>>
                \/ db_task[t].op = "update" /\ db_task'[t].returned = <<>>)
            => db_file' = db_file]_vars

\* C27: a storyboard was saved, read back with its title, and deleted
C27_Witness ==
    /\ Len(db_history) = 3
    /\ db_history[1].op = "save"
    /\ db_history[1].storyboard.title = "Test Action Sequence"
    /\ db_history[2].op = "get"
    /\ db_history[2].storyboard_id = db_history[1].storyboard.id
    /\ db_history[2].returned # <<>>
    /\ db_history[2].returned[1].title = "Test Action Sequence"
    /\ db_history[3].op = "delete"
    /\ db_history[3].storyboard_id = db_history[1].storyboard.id
    /\ db_history[3].returned = <<TRUE>>
    /\ LoadData(db_file) = EmptyObject

\* the file shows what the writing call of task t did
Reflected(t) ==
    LET task == db_task[t]
        data == LoadData(db_file)
    IN CASE task.op = "save" ->
              /\ task.storyboard.id \in DOMAIN data
              /\ data[task.storyboard.id].title = task.storyboard.title
         [] task.op = "update" ->
              task.returned # <<>> =>
                  /\ task.storyboard.id \in DOMAIN data
                  /\ data[task.storyboard.id].title = task.storyboard.title
         [] task.op = "delete" ->
              task.returned = <<TRUE>> => task.storyboard_id \notin DOMAIN data

\* C29: when two writing operations on different ids have run concurrently
\* and both have returned, the file reflects both.
C29_NoLostWrite ==
    (/\ \A t \in DbTasks : db_task[t].pc = "done"
     /\ WrittenId(db_task[1]) # WrittenId(db_task[2]))
        => \A t \in DbTasks : Reflected(t)


\* the node ids a connection names
Named(conn) == {conn.from, conn.to}

ConnectionsAreSound ==
    \A i \in 1..Len(workflow_connections) :
        /\ workflow_connections[i].from \in DOMAIN workflow_nodes
        /\ workflow_connections[i].to \in DOMAIN workflow_nodes
        /\ workflow_connections[i].from # workflow_connections[i].to

\* a step that takes a node away takes exactly the selected node and the
\* connections that name it, and clears the selection
DeletionIsExact ==
    (DOMAIN workflow_nodes' # DOMAIN workflow_nodes
        /\ DOMAIN workflow_nodes' \subseteq DOMAIN workflow_nodes)
    => \E node_id \in DOMAIN workflow_nodes :
          LET Others(conn) == node_id \notin Named(conn)
          IN /\ DOMAIN workflow_nodes' = DOMAIN workflow_nodes \ {node_id}
             /\ \A n \in DOMAIN workflow_nodes' : workflow_nodes'[n] = workflow_nodes[n]
             /\ workflow_connections' = SelectSeq(workflow_connections, Others)
             /\ \A i \in 1..Len(workflow_connections') :
                    node_id \notin Named(workflow_connections'[i])
             /\ selected_node' = <<>>

\* C30: after any sequence of add-node, create-connection and delete-node
\* every connection joins two different nodes of the node set; deleting a
\* node removes that node and the connections naming it, nothing else, and
\* clears the selection.
C30_ConnectionsStayInsideTheNodeSet ==
    []ConnectionsAreSound /\ [][DeletionIsExact]_vars

\* three nodes were added, the selected one has been deleted, and a
\* connection between the two remaining nodes is still stored
C30_Witness ==
    /\ selected_node = <<>>
    /\ Cardinality(DOMAIN workflow_nodes) = 2
    /\ \E n \in DOMAIN workflow_nodes : workflow_nodes[n].position.x = 300
    /\ Len(workflow_connections) = 1

====
